---- MODULE Spec2Model ----
(***************************************************************************)
(* Model of the EUC leadership dashboard ETL core:                         *)
(*   - the two FPL functions (etl/journey.py calculate_fpl_pct and         *)
(*     analytics/metrics.py calculate_fpl),                                *)
(*   - build_single_journey, the per-participant merge-by-priority fold,   *)
(*   - run_pipeline with build_participant_journeys_from_raw and           *)
(*     save_participant_journeys,                                          *)
(*   - process_empower_data (the FPL format detection),                    *)
(*   - the ROI tiers and the sensitivity analysis (analytics/roi.py),      *)
(*   - the row accessors get_field and get_numeric (etl/journey.py),       *)
(*   - the dashboard metrics computed from the journey table               *)
(*     (calculate_success_metrics_from_journeys, generate_cliff_json).     *)
(*                                                                         *)
(* Numbers.  Python floats are modelled as exact rationals [n, d] with     *)
(* d > 0.  d = 0 encodes the two "missing" values of the code:             *)
(* [n |-> 0, d |-> 0] is None and [n |-> 1, d |-> 0] is float NaN.  Both   *)
(* are null for pandas (pd.isna), but None is falsy and NaN is truthy for  *)
(* Python's `or`, `not` and `if`.                                          *)
(***************************************************************************)
EXTENDS Integers, Sequences, FiniteSets, TLC

VARIABLES
    fplCalls,    \* SpecFpl: the calls of the FPL functions made so far, with results
    jpc,         \* SpecJourney: "idle" before build_single_journey is called, "done" after
    jin,         \* SpecJourney: the records of the participant handed to build_single_journey
    journey,     \* SpecJourney: the dict build_single_journey returned
    pc,          \* Spec: position of run_pipeline
    written,     \* Spec: the output artifacts written or replaced during this run
    tables,      \* Spec: the raw sources as build_participant_journeys_from_raw loaded them
    remaining,   \* Spec: the IDs of all_ids the loop has not visited yet
    journeys,    \* Spec: the list `journeys` of build_participant_journeys_from_raw
    savedColumns,\* Spec: the columns of participant_journeys.csv as save_participant_journeys wrote it
    empowerDf,   \* SpecEmpower: the Empower extract before and after process_empower_data
    roiCall,     \* SpecRoi: the last call of an ROI function, with its returned dict
    fieldCall,   \* SpecFields: the last call of get_field or get_numeric, with its result
    dashCall     \* SpecDashboard: the last call of a dashboard metric function on a journey table

vars == <<fplCalls, jpc, jin, journey, pc, written, tables, remaining, journeys,
          savedColumns, empowerDf, roiCall, fieldCall, dashCall>>

(***************************************************************************)
(* Numbers                                                                 *)
(***************************************************************************)
None == [n |-> 0, d |-> 0]
NaN == [n |-> 1, d |-> 0]
Inf == [n |-> 2, d |-> 0]   \* float('inf')
Num(k) == [n |-> k, d |-> 1]
Frac(a, b) == [n |-> a, d |-> b]

Abs(k) == IF k < 0 THEN -k ELSE k
Max(a, b) == IF a >= b THEN a ELSE b

RECURSIVE GCD(_, _)
GCD(a, b) == IF b = 0 THEN a ELSE GCD(b, a % b)

\* a rational in lowest terms (one representation per value)
Norm(x) ==
    IF x.d = 0 THEN x
    ELSE LET g == GCD(Abs(x.n), x.d) IN [n |-> x.n \div g, d |-> x.d \div g]

IsNone(x) == x.d = 0 /\ x.n = 0
IsNaN(x) == x.d = 0 /\ x.n = 1
IsNum(x) == x.d > 0
pd_isna(x) == x.d = 0 /\ x.n \in {0, 1}
pd_notna(x) == ~pd_isna(x)

\* Python truth value of an Optional[float]: None and 0.0 are falsy, NaN is truthy
Truthy(x) == IF x.d = 0 THEN x.n >= 1 ELSE x.n # 0
\* Python `a or b`
Or(a, b) == IF Truthy(a) THEN a ELSE b

\* comparisons of floats; every comparison with NaN is False
\* (whole parts first, then the fractional parts, to stay within TLC's integers)
Floor(x) == x.n \div x.d
FracPart(x) == x.n - Floor(x) * x.d
Lt(a, b) ==
    /\ IsNum(a) /\ IsNum(b)
    /\ \/ Floor(a) < Floor(b)
       \/ Floor(a) = Floor(b) /\ FracPart(a) * b.d < FracPart(b) * a.d
Le(a, b) == IsNum(a) /\ IsNum(b) /\ ~Lt(b, a)
Ge(a, b) == Le(b, a)
Gt(a, b) == Lt(b, a)

\* float arithmetic; NaN propagates (the code never applies it to None)
Add(a, b) ==
    IF ~(IsNum(a) /\ IsNum(b)) THEN NaN
    ELSE LET g == GCD(a.d, b.d)
         IN Norm([n |-> a.n * (b.d \div g) + b.n * (a.d \div g), d |-> a.d * (b.d \div g)])
Sub(a, b) ==
    IF ~(IsNum(a) /\ IsNum(b)) THEN NaN
    ELSE LET g == GCD(a.d, b.d)
         IN Norm([n |-> a.n * (b.d \div g) - b.n * (a.d \div g), d |-> a.d * (b.d \div g)])
\* (common factors are cancelled before multiplying, to stay within TLC's integers)
Mul(a, b) ==
    IF ~(IsNum(a) /\ IsNum(b)) THEN NaN
    ELSE LET g1 == GCD(Abs(a.n), b.d)
             g2 == GCD(Abs(b.n), a.d)
         IN Norm([n |-> (a.n \div g1) * (b.n \div g2), d |-> (a.d \div g2) * (b.d \div g1)])

\* Python int(x) of a float: truncation toward zero
IntTrunc(x) == IF x.n >= 0 THEN x.n \div x.d ELSE -((-x.n) \div x.d)

(***************************************************************************)
(* The FPL model                                                           *)
(***************************************************************************)
FPL_BASE == 15060
FPL_PER_ADDITIONAL == 5380

\* a plausible slip: the ratio inverted (poverty line over income)
calculate_fpl_pct_inverted(annual_income, household_size) ==
    IF pd_isna(annual_income) \/ Le(annual_income, Num(0)) THEN None
    ELSE LET hh == IF pd_notna(household_size)
                   THEN Max(1, IntTrunc(household_size)) ELSE 3
             poverty_line == FPL_BASE + FPL_PER_ADDITIONAL * (hh - 1)
         IN  Norm([n |-> annual_income.d * poverty_line * 100, d |-> annual_income.n])

\* journey.py calculate_fpl_pct
calculate_fpl_pct(annual_income, household_size) ==
    IF pd_isna(annual_income) \/ Le(annual_income, Num(0)) THEN None
    ELSE LET hh == IF pd_notna(household_size)
                   THEN Max(1, IntTrunc(household_size)) ELSE 3
             poverty_line == FPL_BASE + FPL_PER_ADDITIONAL * (hh - 1)
         IN  Norm([n |-> annual_income.n * 100, d |-> annual_income.d * poverty_line])

\* metrics.py get_poverty_line (household_size is an int here)
get_poverty_line(household_size) ==
    LET hs == IF household_size < 1 THEN 1 ELSE household_size
    IN  FPL_BASE + FPL_PER_ADDITIONAL * (hs - 1)

\* metrics.py calculate_fpl
calculate_fpl(annual_income, household_size) ==
    IF pd_isna(annual_income) \/ pd_isna(household_size) THEN None
    ELSE IF Lt(household_size, Num(1)) THEN None
    ELSE IF Lt(annual_income, Num(0)) THEN None
    ELSE LET poverty_line == get_poverty_line(IntTrunc(household_size))
         IN  Norm([n |-> annual_income.n * 100, d |-> annual_income.d * poverty_line])

(***************************************************************************)
(* build_single_journey                                                    *)
(*                                                                         *)
(* The participant's records are given as the values the field resolver    *)
(* returns for them: None when no column matches (or, for get_numeric,     *)
(* when the cell does not parse), NaN for an empty cell, a number          *)
(* otherwise.  Dates are day numbers >= 1 or None (parse_date).  Texts     *)
(* are strings, with NoText for None and NaNText for an empty cell.        *)
(***************************************************************************)
NoText == "<None>"
NaNText == "<NaN>"
\* Python truth value of an Optional[str] cell: None and "" are falsy
TextTruthy(s) == s \notin {NoText, ""}
TextIsNull(s) == s \in {NoText, NaNText}

\* the dict {'participant_id': int(pid)}; a key that is not set reads as None
NewJourney(pid) ==
    [participant_id |-> pid,
     income_change_annual |-> None,
     hpic_set |-> FALSE,                 \* 'has_positive_income_change' in journey
     has_positive_income_change |-> FALSE,
     current_fpl |-> None,
     enrollment_fpl |-> None,
     fpl_change |-> None,
     county |-> NoText,
     household_size |-> None,
     navigator |-> NoText,
     enrollment_status |-> NoText,
     enrollment_date |-> None,
     household_adults |-> None,
     household_children |-> None,
     baseline_date |-> None,
     baseline_hourly_wage |-> None,
     baseline_monthly_income |-> None,
     first_quarterly_date |-> None,
     first_quarterly_monthly_income |-> None,
     last_quarterly_date |-> None,
     last_quarterly_monthly_income |-> None,
     quarterly_count |-> None,
     enrollment_monthly_income |-> None,
     current_monthly_income |-> None,
     income_change_monthly |-> None,
     days_in_program |-> None,
     is_graduate |-> FALSE,
     has_positive_fpl_change |-> FALSE,
     cliff_tier |-> NoText,
     total_assessments |-> None]

\* lines 214-242: the Empower row (already through process_empower_data)
EmpowerSection(j, emp) ==
    IF ~emp.present THEN j
    ELSE
    LET j1 == IF pd_notna(emp.wage_gain)
              THEN [j EXCEPT !.income_change_annual = emp.wage_gain,
                             !.hpic_set = TRUE,
                             !.has_positive_income_change = Gt(emp.wage_gain, Num(0))]
              ELSE j
        j2 == IF pd_notna(emp.fpl_current)
              THEN [j1 EXCEPT !.current_fpl = emp.fpl_current] ELSE j1
        j3 == IF pd_notna(emp.fpl_enrollment)
              THEN [j2 EXCEPT !.enrollment_fpl = emp.fpl_enrollment] ELSE j2
        j4 == IF Truthy(j3.current_fpl) /\ Truthy(j3.enrollment_fpl)
              THEN [j3 EXCEPT !.fpl_change = Sub(j3.current_fpl, j3.enrollment_fpl)]
              ELSE j3
        j5 == IF ~TextIsNull(emp.county)
              THEN [j4 EXCEPT !.county = emp.county] ELSE j4
        j6 == IF pd_notna(emp.household_size)
              THEN [j5 EXCEPT !.household_size = emp.household_size] ELSE j5
    IN  IF ~TextIsNull(emp.navigator)
        THEN [j6 EXCEPT !.navigator = emp.navigator] ELSE j6

\* lines 244-256: the intake row
IntakeSection(j, intake) ==
    IF ~intake.present THEN j
    ELSE
    LET j1 == IF ~TextTruthy(j.county) THEN [j EXCEPT !.county = intake.county] ELSE j
        j2 == [j1 EXCEPT !.enrollment_status = intake.enrollment_status,
                         !.enrollment_date = intake.submission_date,
                         !.household_adults = intake.adults,
                         !.household_children = intake.children]
    IN  IF ~Truthy(j2.household_size)
        THEN [j2 EXCEPT !.household_size =
                  Add(Or(j2.household_adults, Num(1)), Or(j2.household_children, Num(2)))]
        ELSE j2

\* lines 258-264: the baseline row; 4.33 weeks per month
BaselineSection(j, baseline) ==
    IF ~baseline.present THEN j
    ELSE
    LET j1 == [j EXCEPT !.baseline_date = baseline.submission_date,
                        !.baseline_hourly_wage = baseline.hourly_wage]
    IN  IF Truthy(j1.baseline_hourly_wage)
        THEN [j1 EXCEPT !.baseline_monthly_income =
                  Mul(Mul(j1.baseline_hourly_wage, Num(40)), Frac(433, 100))]
        ELSE j1

\* r sorts before s in sort_values('_date'): ascending, missing dates last
DateBefore(r, s) == IsNum(r.date) /\ (pd_isna(s.date) \/ Lt(r.date, s.date))

\* insertion of r after every element that does not sort after it (stable)
RECURSIVE InsertByDate(_, _)
InsertByDate(r, sorted) ==
    IF sorted = << >> THEN <<r>>
    ELSE IF DateBefore(r, Head(sorted)) THEN <<r>> \o sorted
    ELSE <<Head(sorted)>> \o InsertByDate(r, Tail(sorted))

\* line 272: quarterly_recs.sort_values('_date')
RECURSIVE SortByDate(_)
SortByDate(recs) ==
    IF recs = << >> THEN << >>
    ELSE InsertByDate(recs[Len(recs)], SortByDate(SubSeq(recs, 1, Len(recs) - 1)))

\* lines 266-282: the quarterly rows
QuarterlySection(j, quarterly_recs) ==
    IF Len(quarterly_recs) = 0 THEN j
    ELSE
    LET sorted == SortByDate(quarterly_recs)
        first_q == sorted[1]
        last_q == sorted[Len(sorted)]
    IN  [j EXCEPT !.first_quarterly_date = first_q.date,
                  !.first_quarterly_monthly_income = first_q.income,
                  !.last_quarterly_date = last_q.date,
                  !.last_quarterly_monthly_income = last_q.income,
                  !.quarterly_count = Num(Len(quarterly_recs))]

\* a plausible slip: the fallback leaves the flag the Empower row had set
FallbackIncome_stale_flag(j) ==
    IF Truthy(j.income_change_annual) THEN j
    ELSE
    LET j1 == [j EXCEPT !.enrollment_monthly_income =
                            Or(j.first_quarterly_monthly_income, j.baseline_monthly_income),
                        !.current_monthly_income =
                            Or(j.last_quarterly_monthly_income, j.first_quarterly_monthly_income)]
    IN  IF Truthy(j1.enrollment_monthly_income) /\ Truthy(j1.current_monthly_income)
        THEN LET monthly == Sub(j1.current_monthly_income, j1.enrollment_monthly_income)
                 annual == Mul(monthly, Num(12))
             IN  [j1 EXCEPT !.income_change_monthly = monthly,
                            !.income_change_annual = annual]
        ELSE j1

\* lines 284-294: income change from quarterly/baseline when Empower gave none
FallbackIncome(j) ==
    IF Truthy(j.income_change_annual) THEN j
    ELSE
    LET j1 == [j EXCEPT !.enrollment_monthly_income =
                            Or(j.first_quarterly_monthly_income, j.baseline_monthly_income),
                        !.current_monthly_income =
                            Or(j.last_quarterly_monthly_income, j.first_quarterly_monthly_income)]
    IN  IF Truthy(j1.enrollment_monthly_income) /\ Truthy(j1.current_monthly_income)
        THEN LET monthly == Sub(j1.current_monthly_income, j1.enrollment_monthly_income)
                 annual == Mul(monthly, Num(12))
             IN  [j1 EXCEPT !.income_change_monthly = monthly,
                            !.income_change_annual = annual,
                            !.hpic_set = TRUE,
                            !.has_positive_income_change = Gt(Or(annual, Num(0)), Num(0))]
        ELSE j1

\* lines 296-306: FPL from quarterly income when Empower gave no current FPL
FallbackFpl(j) ==
    IF Truthy(j.current_fpl) THEN j
    ELSE
    LET hh_size == Or(j.household_size, Num(3))
        j1 == IF Truthy(j.enrollment_monthly_income)
              THEN [j EXCEPT !.enrollment_fpl =
                        calculate_fpl_pct(Mul(j.enrollment_monthly_income, Num(12)), hh_size)]
              ELSE j
        j2 == IF Truthy(j1.current_monthly_income)
              THEN [j1 EXCEPT !.current_fpl =
                        calculate_fpl_pct(Mul(j1.current_monthly_income, Num(12)), hh_size)]
              ELSE j1
    IN  IF Truthy(j2.enrollment_fpl) /\ Truthy(j2.current_fpl)
        THEN [j2 EXCEPT !.fpl_change = Sub(j2.current_fpl, j2.enrollment_fpl)]
        ELSE j2

\* Python `a or b` on Optional[Timestamp]: a Timestamp is always truthy
DateOr(a, b) == IF IsNum(a) THEN a ELSE b

\* a plausible slip: 0 days instead of None when an endpoint is missing
DaysInProgram_zero(j) ==
    LET enrollment_date ==
            DateOr(j.enrollment_date, DateOr(j.baseline_date, j.first_quarterly_date))
        last_date ==
            DateOr(j.last_quarterly_date, DateOr(j.first_quarterly_date, j.baseline_date))
    IN  IF IsNum(enrollment_date) /\ IsNum(last_date)
        THEN [j EXCEPT !.days_in_program = Sub(last_date, enrollment_date)]
        ELSE [j EXCEPT !.days_in_program = Num(0)]

\* lines 308-314
DaysInProgram(j) ==
    LET enrollment_date ==
            DateOr(j.enrollment_date, DateOr(j.baseline_date, j.first_quarterly_date))
        last_date ==
            DateOr(j.last_quarterly_date, DateOr(j.first_quarterly_date, j.baseline_date))
    IN  IF IsNum(enrollment_date) /\ IsNum(last_date)
        THEN [j EXCEPT !.days_in_program = Sub(last_date, enrollment_date)]
        ELSE [j EXCEPT !.days_in_program = None]

\* a plausible slip: the missing-FPL test placed before the roster test
CliffTier_fpl_first(is_confirmed_graduate, fpl) ==
    IF pd_isna(fpl) THEN "unknown"
    ELSE IF is_confirmed_graduate THEN "graduated"
    ELSE IF Ge(fpl, Num(225)) THEN "graduated"
    ELSE IF Ge(fpl, Num(185)) THEN "near_graduation"
    ELSE IF Ge(fpl, Num(150)) THEN "deep_cliff"
    ELSE IF Ge(fpl, Num(130)) THEN "liheap_childcare"
    ELSE IF Ge(fpl, Num(100)) THEN "snap_tenncare"
    ELSE IF Ge(fpl, Num(50)) THEN "deep_poverty"
    ELSE "extreme_poverty"

\* lines 323-343: the cliff tier table
CliffTier(is_confirmed_graduate, fpl) ==
    IF is_confirmed_graduate THEN "graduated"
    ELSE IF pd_isna(fpl) THEN "unknown"
    ELSE IF Ge(fpl, Num(225)) THEN "graduated"
    ELSE IF Ge(fpl, Num(185)) THEN "near_graduation"
    ELSE IF Ge(fpl, Num(150)) THEN "deep_cliff"
    ELSE IF Ge(fpl, Num(130)) THEN "liheap_childcare"
    ELSE IF Ge(fpl, Num(100)) THEN "snap_tenncare"
    ELSE IF Ge(fpl, Num(50)) THEN "deep_poverty"
    ELSE "extreme_poverty"

\* a plausible slip: the FPL test alone, the roster forgotten
IsGraduate_fpl_only(is_confirmed_graduate, current_fpl) ==
    Ge(Or(current_fpl, Num(0)), Num(225))

\* line 318
IsGraduate(is_confirmed_graduate, current_fpl) ==
    is_confirmed_graduate \/ Ge(Or(current_fpl, Num(0)), Num(225))

\* lines 316-350: outcome classifications and the assessment count
Classify(j, is_confirmed_graduate, n_baseline, n_quarterly, n_col) ==
    LET j1 == [j EXCEPT !.is_graduate = IsGraduate(is_confirmed_graduate, j.current_fpl)]
        j2 == IF ~j1.hpic_set
              THEN [j1 EXCEPT !.hpic_set = TRUE,
                              !.has_positive_income_change =
                                  Gt(Or(j1.income_change_annual, Num(0)), Num(0))]
              ELSE j1
    IN  [j2 EXCEPT !.has_positive_fpl_change = Gt(Or(j2.fpl_change, Num(0)), Num(0)),
                   !.cliff_tier = CliffTier(is_confirmed_graduate, j2.current_fpl),
                   !.total_assessments =
                       Num((IF n_baseline > 0 THEN 1 ELSE 0) + n_quarterly + n_col)]

\* build_single_journey(pid, ...) on the participant's records:
\* recs = [roster, empower, intake, baseline, quarterly, col]
build_single_journey(pid, recs) ==
    LET is_confirmed_graduate == recs.roster
        j1 == EmpowerSection(NewJourney(pid), recs.empower)
        j2 == IntakeSection(j1, recs.intake)
        j3 == BaselineSection(j2, recs.baseline)
        j4 == QuarterlySection(j3, recs.quarterly)
        j5 == FallbackIncome(j4)
        j6 == FallbackFpl(j5)
        j7 == DaysInProgram(j6)
    IN  Classify(j7, is_confirmed_graduate,
                 IF recs.baseline.present THEN 1 ELSE 0, Len(recs.quarterly), recs.col)

(***************************************************************************)
(* Input domains                                                           *)
(***************************************************************************)
MaxQuarterly == 2      \* quarterly records per participant
MaxChangeOfLife == 1   \* change-of-life records per participant

\* the breakpoints of the tier table, each with the value just below it
TierBreakpoints == {50, 100, 130, 150, 185, 225}
BoundaryFpls == {Num(t) : t \in TierBreakpoints} \cup {Num(t - 1) : t \in TierBreakpoints}

AbsentEmpower ==
    [present |-> FALSE, wage_gain |-> NaN, fpl_current |-> NaN, fpl_enrollment |-> NaN,
     household_size |-> NaN, county |-> NaNText, navigator |-> NaNText]
\* rows of the processed Empower table: numeric columns hold NaN or a number
EmpowerRows ==
    [present : {TRUE},
     wage_gain : {NaN, Num(0), Num(5000)},
     fpl_current : {NaN, Num(0), Num(140), Num(230)},
     fpl_enrollment : {NaN, Num(100)},
     household_size : {NaN, Num(0), Num(2)},
     county : {"Knox"}, navigator : {"Pat"}]
    \cup
    [present : {TRUE}, wage_gain : {NaN}, fpl_current : BoundaryFpls,
     fpl_enrollment : {NaN}, household_size : {NaN},
     county : {NaNText}, navigator : {NaNText}]

AbsentIntake ==
    [present |-> FALSE, county |-> NoText, enrollment_status |-> NoText,
     submission_date |-> None, adults |-> None, children |-> None]
\* (one intake form is dated after the baseline assessment)
IntakeRows ==
    [present : {TRUE}, county : {"Blount"}, enrollment_status : {"Enrolled"},
     submission_date : {Num(10)},
     adults : {NaN, Num(0), Num(2)},
     children : {None, Num(0), Num(1)}]
    \cup [present : {TRUE}, county : {"Blount"}, enrollment_status : {"Enrolled"},
          submission_date : {Num(25)}, adults : {Num(2)}, children : {Num(1)}]

AbsentBaseline == [present |-> FALSE, submission_date |-> None, hourly_wage |-> None]
BaselineRows ==
    [present : {TRUE}, submission_date : {Num(20)}, hourly_wage : {None, Num(10)}]

QuarterlyRows == [date : {Num(30)}, income : {NaN, Num(0), Num(1000), Num(4000)}]
QuarterlySeqs == UNION {[1..k -> QuarterlyRows] : k \in 0..MaxQuarterly}

\* quarterly rows submitted on different days, or with a Submission Date that
\* parse_date cannot read
DatedQuarterlyRows ==
    [date : {NaN, Num(30), Num(40)}, income : {Num(1000), Num(2000)}]
DatedQuarterlySeqs == UNION {[1..k -> DatedQuarterlyRows] : k \in 1..MaxQuarterly}

\* everything build_single_journey reads about one participant
ParticipantRecords ==
    [roster : BOOLEAN,
     empower : {AbsentEmpower} \cup EmpowerRows,
     intake : {AbsentIntake} \cup IntakeRows,
     baseline : {AbsentBaseline} \cup BaselineRows,
     quarterly : QuarterlySeqs,
     col : 0..MaxChangeOfLife]
    \cup
    [roster : {FALSE}, empower : {AbsentEmpower}, intake : {AbsentIntake},
     baseline : {AbsentBaseline}, quarterly : DatedQuarterlySeqs, col : {0}]

NoRecords ==
    [roster |-> FALSE, empower |-> AbsentEmpower, intake |-> AbsentIntake,
     baseline |-> AbsentBaseline, quarterly |-> << >>, col |-> 0]

(***************************************************************************)
(* SpecJourney: one call of build_single_journey                           *)
(***************************************************************************)
FplIdle == fplCalls = {}
JourneyIdle == jpc = "idle" /\ jin = NoRecords /\ journey = NewJourney(0)
PipelineIdle ==
    /\ pc = "start" /\ written = {} /\ tables = [i \in {} |-> NoRecords]
    /\ remaining = {} /\ journeys = << >> /\ savedColumns = {}
EmpowerIdle == empowerDf = [state |-> "idle"]
RoiIdle == roiCall = [fn |-> "none"]
FieldIdle == fieldCall = [fn |-> "none"]
DashIdle == dashCall = [fn |-> "none"]

InitJourney == FplIdle /\ JourneyIdle /\ PipelineIdle /\ EmpowerIdle /\ RoiIdle
    /\ FieldIdle /\ DashIdle

\* the caller hands one participant's records to build_single_journey
CallBuildSingleJourney ==
    /\ jpc = "idle"
    /\ \E recs \in ParticipantRecords :
          /\ jin' = recs
          /\ journey' = build_single_journey(1, recs)
    /\ jpc' = "done"
    /\ UNCHANGED <<fplCalls, pc, written, tables, remaining, journeys, savedColumns, empowerDf, roiCall, fieldCall, dashCall>>

NextJourney == CallBuildSingleJourney

SpecJourney == InitJourney /\ [][NextJourney]_vars

(***************************************************************************)
(* Claims about build_single_journey (checked under SpecJourney)           *)
(***************************************************************************)
Built == jpc = "done"
HasFplAtLeast(j, t) == IsNum(j.current_fpl) /\ Ge(j.current_fpl, Num(t))
HasFplBelow(j, t) == IsNum(j.current_fpl) /\ Lt(j.current_fpl, Num(t))

\* C1: every journey has is_graduate true exactly when the participant is on
\* the graduate roster or the journey's final current_fpl is at least 225.
C1_IsGraduateIffRosterOrFpl ==
    Built => (journey.is_graduate <=> (jin.roster \/ HasFplAtLeast(journey, 225)))

\* a roster member whose final FPL is a number below 225, and one without FPL
C1_Witness ==
    Built /\ jin.roster /\ HasFplBelow(journey, 225) /\ journey.is_graduate
C1_WitnessNoFpl ==
    Built /\ jin.roster /\ pd_isna(journey.current_fpl) /\ journey.is_graduate

\* C2: cliff_tier is the top-down table on (roster membership, final
\* current_fpl), stated here band by band; so it is "graduated" exactly for
\* roster members and journeys with current_fpl >= 225.
C2_CliffTierTable ==
    Built =>
      LET f == journey.current_fpl
          t == journey.cliff_tier
      IN  /\ jin.roster => t = "graduated"
          /\ ~jin.roster /\ pd_isna(f) => t = "unknown"
          /\ ~jin.roster /\ HasFplAtLeast(journey, 225) => t = "graduated"
          /\ ~jin.roster /\ HasFplAtLeast(journey, 185) /\ HasFplBelow(journey, 225)
                => t = "near_graduation"
          /\ ~jin.roster /\ HasFplAtLeast(journey, 150) /\ HasFplBelow(journey, 185)
                => t = "deep_cliff"
          /\ ~jin.roster /\ HasFplAtLeast(journey, 130) /\ HasFplBelow(journey, 150)
                => t = "liheap_childcare"
          /\ ~jin.roster /\ HasFplAtLeast(journey, 100) /\ HasFplBelow(journey, 130)
                => t = "snap_tenncare"
          /\ ~jin.roster /\ HasFplAtLeast(journey, 50) /\ HasFplBelow(journey, 100)
                => t = "deep_poverty"
          /\ ~jin.roster /\ HasFplBelow(journey, 50) => t = "extreme_poverty"
          /\ t = "graduated" <=> (jin.roster \/ HasFplAtLeast(journey, 225))

\* a roster member without any FPL is classified graduated
C2_Witness ==
    Built /\ jin.roster /\ pd_isna(journey.current_fpl) /\ journey.cliff_tier = "graduated"

\* C3: a non-missing Empower income_change_annual (0 included) is the
\* journey's final income_change_annual.
C3_EmpowerIncomeChangeWins ==
    Built /\ jin.empower.present /\ pd_notna(jin.empower.wage_gain)
        => journey.income_change_annual = jin.empower.wage_gain

\* C4: every journey has a household_size that is an integer >= 1, and it
\* is 3 when neither Empower nor intake supplies one.
C4_HouseholdSizeAtLeastOne ==
    Built =>
      /\ IsNum(journey.household_size)
      /\ journey.household_size.d = 1
      /\ journey.household_size.n >= 1
      /\ (~jin.empower.present /\ ~jin.intake.present) => journey.household_size = Num(3)

\* C6 concerns a participant known from the graduate roster alone
RosterOnly ==
    /\ jin.roster
    /\ ~jin.empower.present /\ ~jin.intake.present /\ ~jin.baseline.present
    /\ jin.quarterly = << >> /\ jin.col = 0

\* the fields of the journey other than participant_id, is_graduate,
\* cliff_tier, total_assessments and the two has_positive flags
OtherFieldsNull(j) ==
    /\ \A v \in {j.income_change_annual, j.current_fpl, j.enrollment_fpl, j.fpl_change,
                 j.household_size, j.enrollment_date, j.household_adults,
                 j.household_children, j.baseline_date, j.baseline_hourly_wage,
                 j.baseline_monthly_income, j.first_quarterly_date,
                 j.first_quarterly_monthly_income, j.last_quarterly_date,
                 j.last_quarterly_monthly_income, j.quarterly_count,
                 j.enrollment_monthly_income, j.current_monthly_income,
                 j.income_change_monthly, j.days_in_program} : pd_isna(v)
    /\ \A s \in {j.county, j.navigator, j.enrollment_status} : TextIsNull(s)

\* C6 as stated: is_graduate, cliff_tier "graduated" and every other field
\* null, the assessment count included.
C6_RosterOnlyAllOtherNull ==
    Built /\ RosterOnly =>
      /\ journey.is_graduate /\ journey.cliff_tier = "graduated"
      /\ OtherFieldsNull(journey)
      /\ pd_isna(journey.total_assessments)

\* C6 as amended: a roster-only participant yields is_graduate true,
\* cliff_tier "graduated", total_assessments 0, both has_positive flags
\* false, and every other field null.
C6_RosterOnlyJourney ==
    Built /\ RosterOnly =>
      /\ journey.is_graduate /\ journey.cliff_tier = "graduated"
      /\ OtherFieldsNull(journey)
      /\ journey.total_assessments = Num(0)
      /\ ~journey.has_positive_income_change /\ ~journey.has_positive_fpl_change

C6_Witness == Built /\ RosterOnly /\ journey.cliff_tier = "graduated"

(***************************************************************************)
(* SpecFpl: calls of the two FPL functions                                 *)
(***************************************************************************)
MaxCalls == 2   \* calls recorded in one behaviour

FplIncomes == {None, NaN, Num(-100), Num(0), Num(1), Num(15060), Num(20000)}
FplSizes == {None, NaN, Num(-1), Num(0), Num(1), Num(2), Frac(5, 2), Num(3), Num(4)}

InitFpl == FplIdle /\ JourneyIdle /\ PipelineIdle /\ EmpowerIdle /\ RoiIdle
    /\ FieldIdle /\ DashIdle

CallCalculateFplPct ==
    /\ Cardinality(fplCalls) < MaxCalls
    /\ \E income \in FplIncomes, size \in FplSizes :
          fplCalls' = fplCalls \cup
              {[impl |-> "calculate_fpl_pct", income |-> income, size |-> size,
                result |-> calculate_fpl_pct(income, size)]}
    /\ UNCHANGED <<jpc, jin, journey, pc, written, tables, remaining, journeys,
                   savedColumns, empowerDf, roiCall, fieldCall, dashCall>>

CallCalculateFpl ==
    /\ Cardinality(fplCalls) < MaxCalls
    /\ \E income \in FplIncomes, size \in FplSizes :
          fplCalls' = fplCalls \cup
              {[impl |-> "calculate_fpl", income |-> income, size |-> size,
                result |-> calculate_fpl(income, size)]}
    /\ UNCHANGED <<jpc, jin, journey, pc, written, tables, remaining, journeys,
                   savedColumns, empowerDf, roiCall, fieldCall, dashCall>>

NextFpl == CallCalculateFplPct \/ CallCalculateFpl

SpecFpl == InitFpl /\ [][NextFpl]_vars

(***************************************************************************)
(* Claims about the FPL functions (checked under SpecFpl)                  *)
(***************************************************************************)
PositiveIncome(c) == IsNum(c.income) /\ Gt(c.income, Num(0))

\* C8: both implementations return null for a null income and for every
\* income <= 0, whatever the household size.
C8_NullForNonPositiveIncome ==
    \A c \in fplCalls :
        (pd_isna(c.income) \/ Le(c.income, Num(0))) => pd_isna(c.result)

\* the household size the FPL formula uses: max(1, floor(size)), 3 when null
CoercedSize(size) == IF pd_isna(size) THEN 3 ELSE Max(1, Floor(size))
\* annual_income / (15060 + 5380 * (h - 1)) * 100
FplFormula(income, size) ==
    Norm(Frac(income.n * 100, income.d * (15060 + 5380 * (CoercedSize(size) - 1))))

\* C9: for a positive income the result is income / (15060 + 5380 (h - 1))
\* * 100 with h = max(1, floor(household_size)), h = 3 for a null size.
C9_FplFormula ==
    \A c \in fplCalls : PositiveIncome(c) => c.result = FplFormula(c.income, c.size)

\* C10: calculate_fpl_pct is increasing in income for a fixed household
\* size and decreasing in household size for a fixed positive income.
C10_Monotone ==
    \A c1, c2 \in fplCalls :
        (c1.impl = "calculate_fpl_pct" /\ c2.impl = "calculate_fpl_pct"
            /\ PositiveIncome(c1) /\ PositiveIncome(c2)) =>
          /\ (c1.size = c2.size /\ Lt(c1.income, c2.income)) => Lt(c1.result, c2.result)
          /\ (c1.income = c2.income /\ Lt(c1.size, c2.size)) => Le(c2.result, c1.result)

\* two calls with one income and household sizes 1 and 4, and two calls with
\* one size and different positive incomes
C10_Witness ==
    \E c1, c2 \in fplCalls :
        /\ c1.impl = "calculate_fpl_pct" /\ c2.impl = "calculate_fpl_pct"
        /\ c1.income = Num(15060) /\ c2.income = Num(15060)
        /\ c1.size = Num(1) /\ c2.size = Num(4)
        /\ c1.result = Num(100) /\ Lt(c2.result, c1.result)

(***************************************************************************)
(* Spec: run_pipeline, with save_participant_journeys and                  *)
(* build_participant_journeys_from_raw inlined where it calls them         *)
(***************************************************************************)
MaxId == 2   \* participant IDs are 1..MaxId

ParticipantIds == 1..MaxId

\* one participant's rows in the raw sources: present or not in each of the
\* six sources, with one fixed row per source (the Empower row holds the ID
\* and empty cells only)
PipelineEmpowerRow ==
    [present |-> TRUE, wage_gain |-> NaN, fpl_current |-> NaN, fpl_enrollment |-> NaN,
     household_size |-> NaN, county |-> NaNText, navigator |-> NaNText]
PipelineIntakeRow ==
    [present |-> TRUE, county |-> "Blount", enrollment_status |-> "Enrolled",
     submission_date |-> Num(10), adults |-> Num(2), children |-> Num(1)]
PipelineBaselineRow ==
    [present |-> TRUE, submission_date |-> Num(20), hourly_wage |-> Num(10)]
PipelineQuarterlyRow == [date |-> Num(30), income |-> Num(4000)]
PipelineRecords ==
    [roster : BOOLEAN,
     empower : {AbsentEmpower, PipelineEmpowerRow},
     intake : {AbsentIntake, PipelineIntakeRow},
     baseline : {AbsentBaseline, PipelineBaselineRow},
     quarterly : {<< >>, <<PipelineQuarterlyRow>>},
     col : 0..1]

\* the IDs found in each loaded source
IntakeIds(t) == {i \in DOMAIN t : t[i].intake.present}
BaselineIds(t) == {i \in DOMAIN t : t[i].baseline.present}
QuarterlyIds(t) == {i \in DOMAIN t : Len(t[i].quarterly) > 0}
ChangeOfLifeIds(t) == {i \in DOMAIN t : t[i].col > 0}
EmpowerIds(t) == {i \in DOMAIN t : t[i].empower.present}
GraduateIds(t) == {i \in DOMAIN t : t[i].roster}

\* a plausible slip: the roster IDs not added to all_ids
AllIds_no_roster(t) ==
    IntakeIds(t) \cup BaselineIds(t) \cup QuarterlyIds(t) \cup ChangeOfLifeIds(t)
        \cup EmpowerIds(t)

\* journey.py lines 86-93: all_ids
AllIds(t) ==
    IntakeIds(t) \cup BaselineIds(t) \cup QuarterlyIds(t) \cup ChangeOfLifeIds(t)
        \cup EmpowerIds(t) \cup GraduateIds(t)

\* The loaded tables, up to a renaming of the participant IDs: nothing in
\* build_participant_journeys_from_raw depends on the value of an ID (it is
\* looked up, copied into the journey and visited in set order), so only
\* the tables whose rows come in non-decreasing order of SourceCode are
\* enumerated.
SourceCode(r) ==
    (IF r.roster THEN 32 ELSE 0) + (IF r.empower.present THEN 16 ELSE 0)
      + (IF r.intake.present THEN 8 ELSE 0) + (IF r.baseline.present THEN 4 ELSE 0)
      + (IF Len(r.quarterly) > 0 THEN 2 ELSE 0) + r.col
LoadedTables ==
    {t \in [ParticipantIds -> PipelineRecords] :
        \A i \in ParticipantIds :
            i + 1 \in ParticipantIds => SourceCode(t[i]) <= SourceCode(t[i + 1])}

Init == FplIdle /\ JourneyIdle /\ PipelineIdle /\ EmpowerIdle /\ RoiIdle
    /\ FieldIdle /\ DashIdle

PipelineUnchanged == UNCHANGED <<fplCalls, jpc, jin, journey, empowerDf, roiCall, fieldCall, dashCall>>

\* pipeline.py lines 461-466: mkdir of the output directories, then load_all()
LoadAll ==
    /\ pc = "start"
    /\ pc' = "process"
    /\ UNCHANGED <<written, tables, remaining, journeys, savedColumns>>
    /\ PipelineUnchanged

\* lines 468-477: process_* and the two master tables
ProcessSources ==
    /\ pc = "process"
    /\ pc' = "save_processed"
    /\ UNCHANGED <<written, tables, remaining, journeys, savedColumns>>
    /\ PipelineUnchanged

\* lines 484-515: to_csv of participants, assessments, the sheets and the
\* navigator tracking table into DATA_PROCESSED
SaveProcessed ==
    /\ pc = "save_processed"
    /\ written' = written \cup {"participants.csv", "assessments_longitudinal.csv",
                                "intake_sheets.csv", "quarterly_sheets.csv",
                                "change_of_life_sheets.csv", "navigator_tracking.csv"}
    /\ pc' = "report"
    /\ UNCHANGED <<tables, remaining, journeys, savedColumns>>
    /\ PipelineUnchanged

\* lines 517-521: generate_data_quality_report and write_text
SaveReport ==
    /\ pc = "report"
    /\ written' = written \cup {"data_quality_report.md"}
    /\ pc' = "load_raw"
    /\ UNCHANGED <<tables, remaining, journeys, savedColumns>>
    /\ PipelineUnchanged

\* line 528 -> journey.py lines 44-95: the six loaders (the graduate roster
\* among them, which load_all does not read), process_empower_data, all_ids
LoadRaw ==
    /\ pc = "load_raw"
    /\ \E t \in LoadedTables :
          /\ tables' = t
          /\ remaining' = AllIds(t)
    /\ journeys' = << >>
    /\ pc' = "build_journeys"
    /\ UNCHANGED <<written, savedColumns>>
    /\ PipelineUnchanged

\* journey.py lines 99-101: one turn of `for pid in all_ids` (set order)
BuildJourney ==
    /\ pc = "build_journeys"
    /\ \E pid \in remaining :
          /\ journeys' = Append(journeys, build_single_journey(pid, tables[pid]))
          /\ remaining' = remaining \ {pid}
    /\ UNCHANGED <<pc, written, tables, savedColumns>>
    /\ PipelineUnchanged

\* journey.py lines 103-106: DataFrame(journeys), journey_df['is_graduate'];
\* with no journey at all the frame has no columns and the lookup raises
JourneysBuilt ==
    /\ pc = "build_journeys"
    /\ remaining = {}
    /\ pc' = IF journeys = << >> THEN "failed" ELSE "save_journeys"
    /\ UNCHANGED <<written, tables, remaining, journeys, savedColumns>>
    /\ PipelineUnchanged

\* the keys of a journey dict by the kind of their values
NumberColumns ==
    {"income_change_annual", "current_fpl", "enrollment_fpl", "fpl_change", "household_size",
     "enrollment_date", "household_adults", "household_children", "baseline_date",
     "baseline_hourly_wage", "baseline_monthly_income", "first_quarterly_date",
     "first_quarterly_monthly_income", "last_quarterly_date",
     "last_quarterly_monthly_income", "quarterly_count", "enrollment_monthly_income",
     "current_monthly_income", "income_change_monthly", "days_in_program",
     "total_assessments"}
TextColumns == {"county", "navigator", "enrollment_status", "cliff_tier"}
\* participant_id and the three flags are set, and not null, in every journey
AlwaysColumns ==
    {"participant_id", "is_graduate", "has_positive_income_change", "has_positive_fpl_change"}

\* journey[col].notna().any() on DataFrame(journeys): a key no dict has is no
\* column at all, a key without a value is a null cell
notna_any(journey_list, col) ==
    \/ col \in AlwaysColumns /\ journey_list # << >>
    \/ col \in NumberColumns
          /\ \E k \in 1..Len(journey_list) : pd_notna(journey_list[k][col])
    \/ col \in TextColumns
          /\ \E k \in 1..Len(journey_list) : ~TextIsNull(journey_list[k][col])

\* journey.py lines 517-525: the columns that are not blank for every participant
non_empty_cols(journey_list) ==
    {col \in NumberColumns \cup TextColumns \cup AlwaysColumns : notna_any(journey_list, col)}

\* journey.py lines 517-528: the blank columns dropped, then to_csv of
\* participant_journeys.csv
SaveJourneys ==
    /\ pc = "save_journeys"
    /\ written' = written \cup {"participant_journeys.csv"}
    /\ savedColumns' = non_empty_cols(journeys)
    /\ pc' = "dashboard"
    /\ UNCHANGED <<tables, remaining, journeys>>
    /\ PipelineUnchanged

\* pipeline.py line 535: generate_all_dashboard_json
GenerateDashboard ==
    /\ pc = "dashboard"
    /\ written' = written \cup {"dashboard_json"}
    /\ pc' = "done"
    /\ UNCHANGED <<tables, remaining, journeys, savedColumns>>
    /\ PipelineUnchanged

\* the steps that read files or compute on their contents can raise; the
\* exception leaves run_pipeline (nothing in it catches)
FallibleSteps == {"start", "process", "report", "load_raw", "dashboard"}
StepFails ==
    /\ pc \in FallibleSteps
    /\ pc' = "failed"
    /\ UNCHANGED <<written, tables, remaining, journeys, savedColumns>>
    /\ PipelineUnchanged

Next ==
    \/ LoadAll \/ ProcessSources \/ SaveProcessed \/ SaveReport \/ LoadRaw
    \/ BuildJourney \/ JourneysBuilt \/ SaveJourneys \/ GenerateDashboard
    \/ StepFails

Spec == Init /\ [][Next]_vars

(***************************************************************************)
(* Claims about the pipeline (checked under Spec)                          *)
(***************************************************************************)
JourneyIds == {journeys[k].participant_id : k \in 1..Len(journeys)}
JourneysComplete == pc \in {"save_journeys", "dashboard", "done"}

\* C5: the journey table holds exactly one journey for every ID of the
\* union of the six sources' IDs, and a participant without roster entry
\* and without any FPL gets cliff_tier "unknown".
C5_OneJourneyPerKnownId ==
    JourneysComplete =>
      /\ JourneyIds = IntakeIds(tables) \cup BaselineIds(tables) \cup QuarterlyIds(tables)
                        \cup ChangeOfLifeIds(tables) \cup EmpowerIds(tables)
                        \cup GraduateIds(tables)
      /\ \A k1, k2 \in 1..Len(journeys) :
            journeys[k1].participant_id = journeys[k2].participant_id => k1 = k2
      /\ \A k \in 1..Len(journeys) :
            LET id == journeys[k].participant_id
            IN  (~tables[id].roster /\ ~tables[id].intake.present
                   /\ ~tables[id].baseline.present /\ tables[id].quarterly = << >>)
                    => journeys[k].cliff_tier = "unknown"

\* one ID known from the roster alone, the other from an Empower row that
\* holds nothing but the ID: both have a journey, the second is "unknown"
C5_Witness ==
    /\ JourneysComplete
    /\ Len(journeys) = 2
    /\ \E k1, k2 \in 1..Len(journeys) :
          /\ tables[journeys[k1].participant_id] = [NoRecords EXCEPT !.roster = TRUE]
          /\ tables[journeys[k2].participant_id] =
                [NoRecords EXCEPT !.empower = PipelineEmpowerRow]
          /\ journeys[k2].cliff_tier = "unknown"

\* C7: when run_pipeline fails, no output artifact has been written or
\* replaced during the run.
C7_NoWriteBeforeFailure == pc = "failed" => written = {}

(***************************************************************************)
(* process_empower_data: the two FPL columns of the Empower extract        *)
(* (journey.py lines 142-163).  A column is a sequence of cells as         *)
(* pd.to_numeric(errors='coerce') returns them: numbers, or NaN for an     *)
(* empty or unparseable cell.                                              *)
(***************************************************************************)
MaxRows == 3   \* rows of the Empower extract

\* Series.dropna(): the non-null cells, in order
dropna(col) == SelectSeq(col, pd_notna)

InsertValue(x, sorted) ==
    LET k == Cardinality({i \in 1..Len(sorted) : Le(sorted[i], x)})
    IN SubSeq(sorted, 1, k) \o <<x>> \o SubSeq(sorted, k + 1, Len(sorted))
RECURSIVE sort_values(_)
sort_values(col) ==
    IF col = << >> THEN << >> ELSE InsertValue(Head(col), sort_values(Tail(col)))

\* the mutation: format detection by the largest value of the column
median_as_max(col) ==
    LET v == sort_values(dropna(col))
    IN IF Len(v) = 0 THEN NaN ELSE v[Len(v)]

\* Series.median(): skips nulls; the middle value, or the mean of the two
\* middle values; NaN for a column without values
median(col) ==
    LET v == sort_values(dropna(col))
        n == Len(v)
    IN IF n = 0 THEN NaN
       ELSE IF n % 2 = 1 THEN v[(n + 1) \div 2]
       ELSE Mul(Add(v[n \div 2], v[n \div 2 + 1]), Frac(1, 2))

\* lines 148-150 and 159-161: median below 10 means decimal format
detect_fpl_format(col) ==
    LET median_fpl == median(col)
    IN IF pd_notna(median_fpl) /\ Lt(median_fpl, Num(10))
       THEN [i \in 1..Len(col) |-> Mul(col[i], Num(100))]
       ELSE col

\* a column of the frame that is np.nan in every row
AllNaN(n) == [i \in 1..n |-> NaN]

\* lines 142-163; df has the row count and, for each of the two FPL columns
\* the name search looks for, whether one was found and its cells
process_empower_data(df) ==
    [empower_fpl_current |->
        IF df.current.found THEN detect_fpl_format(df.current.cells)
        ELSE AllNaN(df.rows),
     empower_fpl_enrollment |->
        IF df.enrollment.found THEN detect_fpl_format(df.enrollment.cells)
        ELSE AllNaN(df.rows)]

\* cells of the current-FPL column: decimals, percentages, the threshold
CurrentCells ==
    {NaN, Frac(9, 5), Num(2), Frac(9, 4), Num(10), Num(180), Num(200), Num(225)}
\* cells of the enrollment-FPL column
EnrollmentCells == {Num(1), Num(150)}

NotFound == [found |-> FALSE, cells |-> << >>]
Columns(n, cells) ==
    {NotFound} \cup {[found |-> TRUE, cells |-> c] : c \in [1..n -> cells]}
EmpowerFrames ==
    UNION {[rows : {n}, current : Columns(n, CurrentCells),
            enrollment : Columns(n, EnrollmentCells)] : n \in 0..MaxRows}

InitEmpower == FplIdle /\ JourneyIdle /\ PipelineIdle /\ EmpowerIdle /\ RoiIdle
    /\ FieldIdle /\ DashIdle

ProcessEmpowerData ==
    /\ empowerDf.state = "idle"
    /\ \E df \in EmpowerFrames :
          empowerDf' = [state |-> "processed", raw |-> df,
                        out |-> process_empower_data(df)]
    /\ UNCHANGED <<fplCalls, jpc, jin, journey, pc, written, tables, remaining,
                   journeys, savedColumns, roiCall, fieldCall, dashCall>>

NextEmpower == ProcessEmpowerData

SpecEmpower == InitEmpower /\ [][NextEmpower]_vars

(***************************************************************************)
(* Claims about process_empower_data (checked under SpecEmpower)           *)
(***************************************************************************)
Processed == empowerDf.state = "processed"

\* the k-th smallest of the non-null cells, by counting
KthSmallest(col, k) ==
    LET vals == {col[i] : i \in {j \in 1..Len(col) : IsNum(col[j])}}
        Below(a) == Cardinality({i \in 1..Len(col) : Lt(col[i], a)})
        UpTo(a) == Cardinality({i \in 1..Len(col) : Le(col[i], a)})
    IN CHOOSE a \in vals : Below(a) < k /\ k <= UpTo(a)
NonNullCount(col) == Cardinality({i \in 1..Len(col) : IsNum(col[i])})
\* TRUE iff the column has values and their median is below 10
MedianBelowTen(col) ==
    LET n == NonNullCount(col)
    IN /\ n > 0
       /\ IF n % 2 = 1 THEN KthSmallest(col, (n + 1) \div 2).n
                               < 10 * KthSmallest(col, (n + 1) \div 2).d
          ELSE LET a == KthSmallest(col, n \div 2)
                   b == KthSmallest(col, n \div 2 + 1)
               IN a.n * b.d + b.n * a.d < 20 * a.d * b.d
Times100(x) == IF IsNum(x) THEN Norm([n |-> 100 * x.n, d |-> x.d]) ELSE x
DetectedRight(raw, out) ==
    /\ Len(out) = Len(raw)
    /\ \A i \in 1..Len(raw) :
          out[i] = IF MedianBelowTen(raw) THEN Times100(raw[i]) ELSE raw[i]

\* C11: for each Empower FPL column, if the median of its non-null values
\* is below 10 every value of the column is multiplied by 100, otherwise
\* every value is left unchanged; [2.0, 2.25, 1.8] becomes [200, 225, 180]
\* and [200, 225, 180] is unchanged.
C11_FplFormatDetection ==
    Processed =>
        /\ empowerDf.raw.current.found =>
              DetectedRight(empowerDf.raw.current.cells, empowerDf.out.empower_fpl_current)
        /\ empowerDf.raw.enrollment.found =>
              DetectedRight(empowerDf.raw.enrollment.cells,
                            empowerDf.out.empower_fpl_enrollment)
        /\ (empowerDf.raw.current.found
            /\ empowerDf.raw.current.cells = <<Num(2), Frac(9, 4), Frac(9, 5)>>)
              => empowerDf.out.empower_fpl_current = <<Num(200), Num(225), Num(180)>>
        /\ (empowerDf.raw.current.found
            /\ empowerDf.raw.current.cells = <<Num(200), Num(225), Num(180)>>)
              => empowerDf.out.empower_fpl_current = <<Num(200), Num(225), Num(180)>>

\* a decimal-format column with one percentage outlier is converted, next to
\* an enrollment column in percentages that is not
C11_Witness ==
    /\ Processed
    /\ empowerDf.raw.current.found /\ empowerDf.raw.enrollment.found
    /\ empowerDf.raw.current.cells = <<Num(2), Num(200), Frac(9, 4)>>
    /\ empowerDf.out.empower_fpl_current = <<Num(200), Num(20000), Num(225)>>
    /\ empowerDf.raw.enrollment.cells = <<Num(150), Num(1), Num(150)>>
    /\ empowerDf.out.empower_fpl_enrollment = <<Num(150), Num(1), Num(150)>>

(***************************************************************************)
(* The ROI tiers (analytics/roi.py).  Besides numbers, a reported value    *)
(* can be the string "N/A"; it is encoded next to None, NaN and inf.       *)
(***************************************************************************)
NA == [n |-> 3, d |-> 0]   \* the string "N/A"

\* x / y for y # 0
Div(x, y) ==
    IF ~(IsNum(x) /\ IsNum(y)) THEN NaN
    ELSE Mul(x, IF y.n > 0 THEN [n |-> y.d, d |-> y.n] ELSE [n |-> -y.d, d |-> -y.n])

RECURSIVE Pow10(_)
Pow10(k) == IF k = 0 THEN 1 ELSE 10 * Pow10(k - 1)

\* round(x, ndigits): to the nearest multiple of 10^-ndigits, ties to even
Round(x, ndigits) ==
    IF ~IsNum(x) THEN x
    ELSE LET s == Mul(x, Num(Pow10(ndigits)))
             q == s.n \div s.d
             r == s.n - q * s.d
             m == IF 2 * r < s.d THEN q
                  ELSE IF 2 * r > s.d THEN q + 1
                  ELSE IF q % 2 = 0 THEN q ELSE q + 1
         IN Norm([n |-> m, d |-> Pow10(ndigits)])

PROGRAM_INVESTMENT == 25000000

\* TAX_RATES
fica_total == Frac(153, 1000)
federal_income_effective == Frac(10, 100)
state_income == Num(0)
sales_tax_rate == Frac(8, 100)
sales_tax_spending_share == Frac(60, 100)

\* BENEFITS_VALUES
tenncare_adult == 6000
snap_household == 5500
tanf_cash == 2400
childcare_full == 4000
childcare_reduced == 2000

\* the mutation: the value reported without the test for infinity
round_or_na_leaking(x, ndigits) == Round(x, ndigits)

\* lines 134, 135, 140: `round(x, n) if x != float('inf') else "N/A"`
round_or_na(x, ndigits) == IF x # Inf THEN Round(x, ndigits) ELSE NA

\* lines 118-147
calculate_tier1_conservative(annual_wage_gains, investment) ==
    LET annual_return ==
            IF Gt(investment, Num(0)) THEN Div(annual_wage_gains, investment) ELSE Num(0)
        break_even ==
            IF Gt(annual_wage_gains, Num(0)) THEN Div(investment, annual_wage_gains) ELSE Inf
        cost_per_dollar ==
            IF Gt(annual_wage_gains, Num(0)) THEN Div(investment, annual_wage_gains) ELSE Inf
    IN [outcome |-> "returned",
        investment_denominator |-> investment,
        metrics |->
           [documented_annual_wage_gains |-> Round(annual_wage_gains, 0),
            annual_return_per_dollar_invested |-> Round(annual_return, 4),
            break_even_years_undiscounted |-> round_or_na(break_even, 2),
            cost_per_dollar_income_generated |-> round_or_na(cost_per_dollar, 2)],
        \* f"EUC: ${cost_per_dollar:.2f}": the number with two decimals
        benchmarks |-> [euc_comparison |-> round_or_na(cost_per_dollar, 2)],
        caveats |->
           <<"Assumes all measured wage gains persist for at least 1 year",
             "Does not account for what would have happened without program (no RCT yet)",
             "Uses full $25M investment as denominator, not spent-to-date">>]

\* dict.get(key, 0) on the tier counts
GetCount(fpl_tier_counts, key) ==
    IF key \in DOMAIN fpl_tier_counts THEN fpl_tier_counts[key] ELSE 0

\* lines 170, 185, 199, 212: the labels the four bands are looked up under
Tier2Labels ==
    [graduates_225plus |-> "graduated", tier2_150plus |-> "near_graduation",
     tier3_100plus |-> "working_progress", tier4_improved |-> "snap_cliff"]

\* lines 150-252
calculate_tier2_taxpayer(annual_wage_gains, fpl_tier_counts, investment) ==
    LET fica == Mul(annual_wage_gains, fica_total)
        federal == Mul(annual_wage_gains, federal_income_effective)
        state == Mul(annual_wage_gains, state_income)
        sales == Mul(Mul(annual_wage_gains, sales_tax_rate), sales_tax_spending_share)
        total_tax == Add(Add(Add(fica, federal), state), sales)
        grad_count == GetCount(fpl_tier_counts, Tier2Labels.graduates_225plus)
        grad_savings ==
            Num(grad_count * (tenncare_adult + snap_household + tanf_cash + childcare_full))
        tier2_count == GetCount(fpl_tier_counts, Tier2Labels.tier2_150plus)
        tier2_savings == Num(tier2_count * (snap_household + tanf_cash + childcare_reduced))
        tier3_count == GetCount(fpl_tier_counts, Tier2Labels.tier3_100plus)
        tier3_savings ==
            Mul(Num(tier3_count), Add(Num(tanf_cash), Mul(Num(snap_household), Frac(1, 2))))
        tier4_count == GetCount(fpl_tier_counts, Tier2Labels.tier4_improved)
        tier4_savings == Num(tier4_count * 1000)
        total_benefits == Add(Add(Add(grad_savings, tier2_savings), tier3_savings), tier4_savings)
        total_taxpayer == Add(total_tax, total_benefits)
    IN [outcome |-> "returned",
        investment_denominator |-> investment,
        tax_revenue |->
           [fica_employer_employee |-> Round(fica, 0),
            federal_income_effective_10pct |-> Round(federal, 0),
            state_income_tn_none |-> Round(state, 0),
            sales_tax_on_spending |-> Round(sales, 0),
            total_annual |-> Round(total_tax, 0)],
        benefits_savings |->
           [by_tier |->
               [graduates_225plus |->
                   [count |-> grad_count, per_family_savings |-> 17900,
                    total |-> Round(grad_savings, 0)],
                tier2_150plus |->
                   [count |-> tier2_count, per_family_savings |-> 9900,
                    total |-> Round(tier2_savings, 0)],
                tier3_100plus |->
                   [count |-> tier3_count, per_family_savings |-> 5150,
                    total |-> Round(tier3_savings, 0)],
                tier4_improved |->
                   [count |-> tier4_count, per_family_savings |-> 1000,
                    total |-> Round(tier4_savings, 0)]],
            total_annual |-> Round(total_benefits, 0)],
        combined |->
           [total_annual_taxpayer_benefit |-> Round(total_taxpayer, 0),
            annual_return_per_dollar |->
                IF Gt(investment, Num(0)) THEN Round(Div(total_taxpayer, investment), 4)
                ELSE Num(0),
            break_even_years |->
                IF Gt(total_taxpayer, Num(0)) THEN Round(Div(investment, total_taxpayer), 1)
                ELSE NA,
            ten_year_return_undiscounted |-> Round(Mul(total_taxpayer, Num(10)), 0)],
        caveats |->
           <<"Benefits savings are ESTIMATES based on FPL thresholds",
             "Actual savings depend on individual benefit receipt and recertification timing",
             "Does not account for what would have happened without program",
             "TN-specific benefit levels used (lower than national average)">>]

\* PROJECTION_ASSUMPTIONS
discount_rate == Frac(3, 100)
default_working_years == 25
chetty_coefficient == Frac(13, 1000)
avg_children_per_family == Num(2)

\* The annuity and discount factors are float constants of the code (they
\* depend on discount_rate only); each is carried with four decimals.
\* line 264: (1 - 1.03^-25) / 0.03 = 17.41314...
pv_factor_25 == Frac(174131, 10000)
\* line 269: (1 - 1.03^-5) / 0.03 = 4.57970...
fade_years_1_5 == Frac(45797, 10000)
\* line 270: 0.8 * ((1 - 1.03^-5) / 0.03) / 1.03^5 = 3.16039...
fade_years_6_10 == Frac(31604, 10000)
\* line 271: 0.6 * ((1 - 1.03^-15) / 0.03) / 1.03^10 = 5.32977...
fade_years_11_25 == Frac(53298, 10000)
\* lines 334-335: ((1 - 1.03^-30) / 0.03) / 1.03^15 = 12.58077...
pv_factor_delayed == Frac(125808, 10000)

\* lines 268-272 and 339-343
pv_with_fade(annual_wage_gains) ==
    Add(Add(Mul(annual_wage_gains, fade_years_1_5), Mul(annual_wage_gains, fade_years_6_10)),
        Mul(annual_wage_gains, fade_years_11_25))

\* lines 255-306
calculate_tier3_lifecycle(annual_wage_gains, investment) ==
    LET lifetime_pv_full == Mul(annual_wage_gains, pv_factor_25)
    IN [outcome |-> "returned",
        investment_denominator |-> investment,
        assumptions |->
           [working_years_remaining |-> default_working_years, discount_rate |-> discount_rate],
        projections |->
           [full_persistence |->
               [lifetime_pv |-> Round(lifetime_pv_full, 0),
                roi_ratio |-> IF Gt(investment, Num(0))
                              THEN Round(Div(lifetime_pv_full, investment), 1) ELSE Num(0)],
            with_fade |->
               [lifetime_pv |-> Round(pv_with_fade(annual_wage_gains), 0),
                roi_ratio |-> IF Gt(investment, Num(0))
                              THEN Round(Div(pv_with_fade(annual_wage_gains), investment), 1)
                              ELSE Num(0)]],
        caveats |->
           <<"PROJECTION: Assumes wage gains persist; research shows effects often fade",
             "Working years assumed at 25; actual varies by participant age",
             "Without RCT, cannot claim causation-association only",
             "Sensitivity analysis recommended for key assumptions">>]

\* the mutation: the warning decided on the reported (rounded) ratio
red_flag_on_rounded(total_societal, investment, numpy) ==
    IF investment.n = 0 THEN "absent"
    ELSE IF Gt(Round(Div(total_societal, investment), 1), Num(10)) THEN "present" ELSE "absent"

\* line 375: `if total_societal / investment > 10`.  With investment 0 the
\* division raises ZeroDivisionError for Python numbers; when the gains are
\* numpy.float64 (as calculate_full_roi passes them) it gives inf, or nan
\* for 0 / 0, and a warning only.
red_flag(total_societal, investment, numpy) ==
    IF investment.n = 0
    THEN IF ~numpy THEN "ZeroDivisionError"
         ELSE IF total_societal.n > 0 THEN "present" ELSE "absent"
    ELSE IF Gt(Div(total_societal, investment), Num(10)) THEN "present" ELSE "absent"

\* lines 309-378
calculate_tier4_intergenerational(annual_wage_gains, avg_wage_gain, total_families, investment, numpy) ==
    LET total_children == IntTrunc(Mul(Num(total_families), avg_children_per_family))
        income_increase_thousands == Div(avg_wage_gain, Num(1000))
        assumed_child_baseline_earnings == 40000
        earnings_boost_per_child ==
            Mul(Mul(Num(assumed_child_baseline_earnings), chetty_coefficient),
                income_increase_thousands)
        total_child_earnings_boost == Mul(earnings_boost_per_child, Num(total_children))
        intergenerational_pv == Mul(total_child_earnings_boost, pv_factor_delayed)
        total_societal == Add(pv_with_fade(annual_wage_gains), intergenerational_pv)
        result ==
           [outcome |-> "returned",
            investment_denominator |-> investment,
            intergenerational |->
               [total_children |-> total_children,
                avg_family_income_increase |-> Round(avg_wage_gain, 0),
                chetty_coefficient |-> chetty_coefficient,
                projected_earnings_boost_per_child_annual |-> Round(earnings_boost_per_child, 0),
                total_children_earnings_boost_annual |-> Round(total_child_earnings_boost, 0),
                lifetime_pv_discounted |-> Round(intergenerational_pv, 0)],
            combined_societal |->
               [adult_lifecycle_pv |-> Round(pv_with_fade(annual_wage_gains), 0),
                intergenerational_pv |-> Round(intergenerational_pv, 0),
                total_societal_pv |-> Round(total_societal, 0),
                societal_roi_ratio |-> IF Gt(investment, Num(0))
                                       THEN Round(Div(total_societal, investment), 1)
                                       ELSE Num(0)],
            caveats |->
               <<"HIGHLY SPECULATIVE: Intergenerational effects are research-based projections, not measured",
                 "Chetty research based on different populations; applicability to rural TN uncertain",
                 "Effects won't be observable for 15-20 years",
                 "Represents potential, not proven impact",
                 "Should not be primary ROI cited; use for 'comprehensive potential' framing">>]
        flag == red_flag(total_societal, investment, numpy)
    IN IF flag = "ZeroDivisionError" THEN [outcome |-> "ZeroDivisionError"]
       ELSE IF flag = "present"
       THEN result @@ [red_flag |->
                "WARNING: ROI >10:1 may indicate overclaiming. Verify assumptions."]
       ELSE result

AttributionPcts == {100, 70, 50, 30}

\* lines 381-443
calculate_sensitivity_analysis(annual_wage_gains, investment) ==
    LET attributed(pct) == Mul(annual_wage_gains, Frac(pct, 100))
        roi(pct) == IF Gt(investment, Num(0))
                    THEN Mul(Div(attributed(pct), investment), Num(25)) ELSE Num(0)
        persistence(years) ==
           [lifetime_value |-> Round(Mul(annual_wage_gains, Num(years)), 0),
            roi_ratio |-> IF Gt(investment, Num(0))
                          THEN Round(Div(Mul(annual_wage_gains, Num(years)), investment), 1)
                          ELSE Num(0)]
    IN [outcome |-> "returned",
        attribution |->
           [scenarios |->
               [pct \in AttributionPcts |->
                   [attributed_annual_gains |-> Round(attributed(pct), 0),
                    implied_lifecycle_roi |-> Round(roi(pct), 1)]],
            note |-> "RCT will reveal actual attribution; Building Nebraska Families showed 0% attribution"],
        wage_persistence |->
           [scenarios |->
               [full |-> persistence(25), moderate_fade |-> persistence(15),
                rapid_fade |-> persistence(8)],
            note |-> "Research shows workforce gains often fade; long-term follow-up rare"],
        denominator |->
           [scenarios |->
               [full_25m |->
                   [value |-> 25000000,
                    roi_ratio |-> Round(Div(Mul(annual_wage_gains, Num(25)), Num(25000000)), 1)],
                annual_program_cost |->
                   [value |-> 6000000,
                    roi_ratio |-> Round(Div(Mul(annual_wage_gains, Num(25)), Num(6000000)), 1)],
                marginal_per_family |->
                   [value |-> 7000,
                    roi_ratio |-> Round(Div(Mul(Div(annual_wage_gains, Num(862)), Num(25)),
                                            Num(7000)), 1)]],
            recommendation |-> "Use $25M for consistency; note if different denominator used"]]

\* Series.sum() of a column of numbers
RECURSIVE SumSeq(_)
SumSeq(col) == IF col = << >> THEN Num(0) ELSE Add(Head(col), SumSeq(Tail(col)))

\* Series.value_counts().to_dict(): the labels that occur, with their counts
value_counts(labels) ==
    [l \in {labels[i] : i \in 1..Len(labels)} |->
        Cardinality({i \in 1..Len(labels) : labels[i] = l})]

\* lines 446-593, the branch on the journey table (lines 456-472); journeys is
\* the table as a sequence of rows with cliff_tier and income_change_annual
calculate_full_roi(journeys_df) ==
    LET income == [i \in 1..Len(journeys_df) |-> journeys_df[i].income_change_annual]
        valid_wages == SelectSeq(income, pd_notna)
        IsPositive(x) == Gt(x, Num(0))
        positive_changes == SelectSeq(valid_wages, IsPositive)
        total_wage_gains == SumSeq(positive_changes)
        positive_count == Len(positive_changes)
        avg_wage_gain == IF positive_count > 0
                         THEN Div(total_wage_gains, Num(positive_count)) ELSE Num(0)
        total_families == Len(journeys_df)
        fpl_tier_counts ==
            value_counts([i \in 1..Len(journeys_df) |-> journeys_df[i].cliff_tier])
        investment == Num(PROGRAM_INVESTMENT)
    IN [data_quality |->
           [total_participants |-> total_families,
            participants_with_wage_data |-> Len(valid_wages),
            positive_wage_gainers |-> positive_count],
        fpl_distribution |-> fpl_tier_counts,
        tier1_conservative |-> calculate_tier1_conservative(total_wage_gains, investment),
        tier2_taxpayer |->
            calculate_tier2_taxpayer(total_wage_gains, fpl_tier_counts, investment),
        tier3_lifecycle |-> calculate_tier3_lifecycle(total_wage_gains, investment),
        tier4_intergenerational |->
            calculate_tier4_intergenerational(total_wage_gains, avg_wage_gain,
                                              total_families, investment, TRUE),
        sensitivity_analysis |-> calculate_sensitivity_analysis(total_wage_gains, investment)]

(***************************************************************************)
(* SpecRoi: one call of an ROI function                                    *)
(***************************************************************************)
MaxJourneys == 2   \* rows of the journey table handed to calculate_full_roi

\* (annual_wage_gains, investment) of a direct call
WageGains == {Num(0), Num(1000), Num(1001)}
Investments == {Num(0), Num(1000), Num(3000)}
GainsAndInvestment ==
    (WageGains \X Investments)
        \cup {<<Num(0), Num(PROGRAM_INVESTMENT)>>, <<Num(6200000), Num(PROGRAM_INVESTMENT)>>,
              <<Num(6200000), Num(0)>>}

\* tier counts of a direct call: a dict with some of the labels as keys
TierCountLabels == {"graduated", "near_graduation", "working_progress", "snap_cliff"}
TierCounts == UNION {[keys -> {1, 3}] : keys \in SUBSET TierCountLabels}

\* Tier 4 inputs around the 10:1 threshold (13069.9 / 1306.99 = 10)
Tier4Gains == {Num(0), Num(1000)}
Tier4AvgGains == {Num(0), Num(1000), Num(5000)}
Tier4Families == {0, 1, 3}
Tier4Investments == {Num(0), Num(1000), Num(1306), Frac(130699, 100), Num(2000)}

\* rows of the journey table
CliffTiers ==
    {"graduated", "near_graduation", "deep_cliff", "liheap_childcare", "snap_tenncare",
     "deep_poverty", "extreme_poverty", "unknown"}
JourneyTableRows == [cliff_tier : CliffTiers, income_change_annual : {NaN, Num(0), Num(10000)}]
JourneyTables == UNION {[1..n -> JourneyTableRows] : n \in 0..MaxJourneys}

InitRoi == FplIdle /\ JourneyIdle /\ PipelineIdle /\ EmpowerIdle /\ RoiIdle
    /\ FieldIdle /\ DashIdle

RoiUnchanged ==
    UNCHANGED <<fplCalls, jpc, jin, journey, pc, written, tables, remaining, journeys,
                savedColumns, empowerDf, fieldCall, dashCall>>

CallTier1 ==
    /\ roiCall.fn = "none"
    /\ \E a \in GainsAndInvestment :
          roiCall' = [fn |-> "calculate_tier1_conservative",
                      annual_wage_gains |-> a[1], investment |-> a[2],
                      result |-> calculate_tier1_conservative(a[1], a[2])]
    /\ RoiUnchanged

CallTier2 ==
    /\ roiCall.fn = "none"
    /\ \E a \in GainsAndInvestment, counts \in TierCounts :
          roiCall' = [fn |-> "calculate_tier2_taxpayer",
                      annual_wage_gains |-> a[1], investment |-> a[2],
                      fpl_tier_counts |-> counts,
                      result |-> calculate_tier2_taxpayer(a[1], counts, a[2])]
    /\ RoiUnchanged

CallTier3 ==
    /\ roiCall.fn = "none"
    /\ \E a \in GainsAndInvestment :
          roiCall' = [fn |-> "calculate_tier3_lifecycle",
                      annual_wage_gains |-> a[1], investment |-> a[2],
                      result |-> calculate_tier3_lifecycle(a[1], a[2])]
    /\ RoiUnchanged

CallTier4 ==
    /\ roiCall.fn = "none"
    /\ \E gains \in Tier4Gains, avg \in Tier4AvgGains, families \in Tier4Families,
          investment \in Tier4Investments, numpy \in BOOLEAN :
          roiCall' = [fn |-> "calculate_tier4_intergenerational",
                      annual_wage_gains |-> gains, avg_wage_gain |-> avg,
                      total_families |-> families, investment |-> investment,
                      numpy |-> numpy,
                      result |-> calculate_tier4_intergenerational(gains, avg, families,
                                                                   investment, numpy)]
    /\ RoiUnchanged

CallSensitivity ==
    /\ roiCall.fn = "none"
    /\ \E a \in GainsAndInvestment :
          roiCall' = [fn |-> "calculate_sensitivity_analysis",
                      annual_wage_gains |-> a[1], investment |-> a[2],
                      result |-> calculate_sensitivity_analysis(a[1], a[2])]
    /\ RoiUnchanged

CallFullRoi ==
    /\ roiCall.fn = "none"
    /\ \E t \in JourneyTables :
          roiCall' = [fn |-> "calculate_full_roi", journeys |-> t,
                      result |-> calculate_full_roi(t)]
    /\ RoiUnchanged

NextRoi ==
    \/ CallTier1 \/ CallTier2 \/ CallTier3 \/ CallTier4 \/ CallSensitivity \/ CallFullRoi

SpecRoi == InitRoi /\ [][NextRoi]_vars

(***************************************************************************)
(* Claims about the ROI functions (checked under SpecRoi)                  *)
(***************************************************************************)
TierFunctions ==
    {"calculate_tier1_conservative", "calculate_tier2_taxpayer", "calculate_tier3_lifecycle",
     "calculate_tier4_intergenerational", "calculate_sensitivity_analysis"}
Called(fn) == roiCall.fn = fn
Returned == roiCall.result.outcome = "returned"

\* the ratios a returned result reports
ReportedRatios ==
    LET r == roiCall.result
    IN IF Called("calculate_tier1_conservative")
       THEN {r.metrics.annual_return_per_dollar_invested,
             r.metrics.break_even_years_undiscounted,
             r.metrics.cost_per_dollar_income_generated, r.benchmarks.euc_comparison}
       ELSE IF Called("calculate_tier2_taxpayer")
       THEN {r.combined.annual_return_per_dollar, r.combined.break_even_years}
       ELSE IF Called("calculate_tier3_lifecycle")
       THEN {r.projections.full_persistence.roi_ratio, r.projections.with_fade.roi_ratio}
       ELSE IF Called("calculate_tier4_intergenerational")
       THEN {r.combined_societal.societal_roi_ratio}
       ELSE {r.attribution.scenarios[p].implied_lifecycle_roi : p \in AttributionPcts}
            \cup {r.wage_persistence.scenarios.full.roi_ratio,
                  r.wage_persistence.scenarios.moderate_fade.roi_ratio,
                  r.wage_persistence.scenarios.rapid_fade.roi_ratio,
                  r.denominator.scenarios.full_25m.roi_ratio,
                  r.denominator.scenarios.annual_program_cost.roi_ratio,
                  r.denominator.scenarios.marginal_per_family.roi_ratio}

\* C12: no ROI ratio computation raises a division error or emits infinity:
\* for every non-negative wage-gain total and every investment, 0 included,
\* each of the four tiers and the sensitivity analysis returns a result, with
\* a number or the sentinel in place of every ratio.
C12_NoDivisionErrorOrInfinity ==
    roiCall.fn \in TierFunctions =>
        /\ Returned
        /\ \A v \in ReportedRatios : IsNum(v) \/ v = NA

\* a / b as an exact fraction, b > 0
ExactRatio(a, b) == Norm([n |-> a.n * b.d, d |-> a.d * b.n])
\* r has at most k decimals and is within half a unit of the k-th decimal of x
NearestTo(r, x, k) ==
    /\ IsNum(r) /\ Pow10(k) % r.d = 0
    /\ Le(Sub(r, x), Frac(1, 2 * Pow10(k)))
    /\ Le(Sub(x, r), Frac(1, 2 * Pow10(k)))
Tier1Values ==
    LET r == roiCall.result
    IN {r.investment_denominator, r.metrics.documented_annual_wage_gains,
        r.metrics.annual_return_per_dollar_invested, r.metrics.break_even_years_undiscounted,
        r.metrics.cost_per_dollar_income_generated, r.benchmarks.euc_comparison}

\* C13: Tier 1 reports annual_return_per_dollar = gains / investment (four
\* decimals) and break_even_years = investment / gains (two decimals); gains
\* 6,200,000 and investment 25,000,000 give 0.248 and 4.03; with gains 0,
\* break_even_years and cost_per_dollar are "N/A", and no infinity appears
\* anywhere in the returned object.
C13_Tier1Ratios ==
    Called("calculate_tier1_conservative") =>
        LET gains == roiCall.annual_wage_gains
            investment == roiCall.investment
            m == roiCall.result.metrics
        IN /\ Returned
           /\ Gt(investment, Num(0)) =>
                 NearestTo(m.annual_return_per_dollar_invested,
                           ExactRatio(gains, investment), 4)
           /\ Gt(gains, Num(0)) =>
                 /\ NearestTo(m.break_even_years_undiscounted,
                              ExactRatio(investment, gains), 2)
                 /\ NearestTo(m.cost_per_dollar_income_generated,
                              ExactRatio(investment, gains), 2)
           /\ gains = Num(0) =>
                 /\ m.break_even_years_undiscounted = NA
                 /\ m.cost_per_dollar_income_generated = NA
           /\ Inf \notin Tier1Values
           /\ (gains = Num(6200000) /\ investment = Num(25000000)) =>
                 /\ m.annual_return_per_dollar_invested = Frac(31, 125)
                 /\ m.break_even_years_undiscounted = Frac(403, 100)

\* Tier 1 was called with gains 0 and the full investment and returned the
\* sentinel for both break-even figures
C13_Witness ==
    /\ Called("calculate_tier1_conservative")
    /\ roiCall.annual_wage_gains = Num(0) /\ roiCall.investment = Num(PROGRAM_INVESTMENT)
    /\ roiCall.result.metrics.break_even_years_undiscounted = NA
    /\ roiCall.result.metrics.cost_per_dollar_income_generated = NA
    /\ roiCall.result.metrics.annual_return_per_dollar_invested = Num(0)
\* the example of the claim
C13_WitnessExample ==
    /\ Called("calculate_tier1_conservative")
    /\ roiCall.annual_wage_gains = Num(6200000) /\ roiCall.investment = Num(25000000)
    /\ roiCall.result.metrics.annual_return_per_dollar_invested = Frac(31, 125)

\* C14: each of the five ROI outputs (Tier 1, Tier 2, Tier 3, Tier 4 and
\* the sensitivity analysis) carries a non-empty list of caveats in its
\* returned object, for every input.
C14_CaveatsNonEmpty ==
    (roiCall.fn \in TierFunctions /\ Returned) =>
        /\ "caveats" \in DOMAIN roiCall.result
        /\ Len(roiCall.result.caveats) > 0

\* the journeys of the table handed to calculate_full_roi with this cliff_tier
JourneysInTier(label) ==
    Cardinality({i \in 1..Len(roiCall.journeys) : roiCall.journeys[i].cliff_tier = label})

\* C15: when calculate_full_roi runs on the journey table, Tier 2 counts for
\* each benefit band exactly the journeys whose cliff_tier lies in that band
\* (225%+ graduated, 185-225% near_graduation, 150-185% deep_cliff, 130-150%
\* liheap_childcare), multiplies each count by its per-family amount (17,900,
\* 9,900, 5,150, 1,000), and totals the four bands.
C15_BenefitBandsCountJourneys ==
    Called("calculate_full_roi") =>
        LET b == roiCall.result.tier2_taxpayer.benefits_savings
        IN /\ b.by_tier.graduates_225plus.count = JourneysInTier("graduated")
           /\ b.by_tier.tier2_150plus.count = JourneysInTier("near_graduation")
           /\ b.by_tier.tier3_100plus.count = JourneysInTier("deep_cliff")
           /\ b.by_tier.tier4_improved.count = JourneysInTier("liheap_childcare")
           /\ b.by_tier.graduates_225plus.total = Num(17900 * JourneysInTier("graduated"))
           /\ b.by_tier.tier2_150plus.total = Num(9900 * JourneysInTier("near_graduation"))
           /\ b.by_tier.tier3_100plus.total = Num(5150 * JourneysInTier("deep_cliff"))
           /\ b.by_tier.tier4_improved.total = Num(1000 * JourneysInTier("liheap_childcare"))
           /\ b.total_annual =
                 Num(17900 * JourneysInTier("graduated")
                     + 9900 * JourneysInTier("near_graduation")
                     + 5150 * JourneysInTier("deep_cliff")
                     + 1000 * JourneysInTier("liheap_childcare"))

\* total_societal of a Tier 4 call, from its inputs: the with-fade present
\* value plus 40,000 * 0.013 * (avg / 1000) per child, two children a family
SocietalTotal ==
    LET gainsTimes10000 == roiCall.annual_wage_gains.n * (45797 + 31604 + 53298)
        boostTimes1000 == 520 * roiCall.avg_wage_gain.n * 2 * roiCall.total_families
    IN Add(Frac(gainsTimes10000, 10000), Mul(Frac(boostTimes1000, 1000), Frac(125808, 10000)))
RedFlagged == "red_flag" \in DOMAIN roiCall.result

\* C16: Tier 4 emits the warning flag (red_flag) whenever the combined
\* societal ROI ratio (with-fade PV plus intergenerational PV, divided by
\* the investment) exceeds 10:1, and does not emit it when the ratio is at
\* most 10; over investment 0 a returned result is flagged iff the PV is
\* positive (the ratio is infinite).
C16_RedFlagIffRatioAboveTen ==
    (Called("calculate_tier4_intergenerational") /\ Returned) =>
        IF roiCall.investment.n > 0
        THEN RedFlagged <=> Gt(SocietalTotal, Mul(Num(10), roiCall.investment))
        ELSE RedFlagged <=> Gt(SocietalTotal, Num(0))

\* a ratio of 13069.9 / 1306 = 10.008: reported as 10.0, and flagged
C16_Witness ==
    /\ Called("calculate_tier4_intergenerational") /\ Returned
    /\ roiCall.annual_wage_gains = Num(1000) /\ roiCall.investment = Num(1306)
    /\ roiCall.avg_wage_gain = Num(0)
    /\ roiCall.result.combined_societal.societal_roi_ratio = Num(10)
    /\ RedFlagged
\* a ratio of exactly 10 is not flagged
C16_WitnessAtTen ==
    /\ Called("calculate_tier4_intergenerational") /\ Returned
    /\ roiCall.annual_wage_gains = Num(1000) /\ roiCall.investment = Frac(130699, 100)
    /\ roiCall.avg_wage_gain = Num(0)
    /\ ~RedFlagged

\* C17: in the sensitivity analysis the attributed gains reported for each
\* attribution scenario p in {100, 70, 50, 30} equal total_wage_gains * p/100
\* exactly, with no rounding applied.
C17_AttributedGainsExact ==
    Called("calculate_sensitivity_analysis") =>
        \A p \in AttributionPcts :
            roiCall.result.attribution.scenarios[p].attributed_annual_gains
                = Norm([n |-> roiCall.annual_wage_gains.n * p,
                        d |-> roiCall.annual_wage_gains.d * 100])

(***************************************************************************)
(* Claims about the saved journey table (checked under Spec)               *)
(***************************************************************************)
DataModelFields ==
    {"county", "household_size", "enrollment_status", "enrollment_date", "navigator",
     "enrollment_fpl", "current_fpl", "fpl_change", "income_change_annual",
     "days_in_program", "is_graduate", "cliff_tier", "total_assessments"}
JourneysSaved == "participant_journeys.csv" \in written

\* C18: the journey table written by save_participant_journeys and handed
\* to downstream consumers has a column for every field of the data model,
\* for every input, inputs where no participant has a value for a field
\* included.
C18_EveryFieldIsAColumn == JourneysSaved => DataModelFields \subseteq savedColumns

(***************************************************************************)
(* Further claims about build_single_journey (checked under SpecJourney)   *)
(***************************************************************************)
KnownDates(dates) == {d \in dates : IsNum(d)}
Latest(dates) == CHOOSE d \in dates : \A e \in dates : e.n <= d.n
Earliest(dates) == CHOOSE d \in dates : \A e \in dates : d.n <= e.n

\* C19: days_in_program is the latest date among {last quarterly, first
\* quarterly, baseline} minus the earliest date among {enrollment date,
\* baseline date, first quarterly}, in whole days, and is null if and only if
\* one of the two endpoints is unavailable.
C19_DaysFromEarliestToLatest ==
    Built =>
        LET ends == KnownDates({journey.last_quarterly_date, journey.first_quarterly_date,
                                journey.baseline_date})
            starts == KnownDates({journey.enrollment_date, journey.baseline_date,
                                  journey.first_quarterly_date})
        IN IF ends = {} \/ starts = {}
           THEN pd_isna(journey.days_in_program)
           ELSE journey.days_in_program = Num(Latest(ends).n - Earliest(starts).n)

EmpowerGivesNoIncomeChange == ~jin.empower.present \/ pd_isna(jin.empower.wage_gain)

\* C20: when the Empower extract gives no income_change_annual, the
\* journey's income_change_annual is (last quarterly income - first
\* quarterly income) * 12 whenever both quarterly incomes are non-missing
\* (incomes of 0 included), and stays null (never 0) when the participant has
\* no quarterly data.
C20_FallbackIncomeChange ==
    (Built /\ EmpowerGivesNoIncomeChange) =>
        /\ (/\ Len(jin.quarterly) > 0
            /\ IsNum(journey.first_quarterly_monthly_income)
            /\ IsNum(journey.last_quarterly_monthly_income))
              => journey.income_change_annual
                    = Num(12 * (journey.last_quarterly_monthly_income.n
                                - journey.first_quarterly_monthly_income.n))
        /\ Len(jin.quarterly) = 0 => pd_isna(journey.income_change_annual)

SuppliedByEmpower(field) == jin.empower.present /\ pd_notna(jin.empower[field])

\* C21: when the Empower row supplies enrollment_fpl (or current_fpl), the
\* journey's final enrollment_fpl (current_fpl) equals the Empower value, for
\* every combination of the other sources; the FPL values derived from
\* quarterly income go only into FPL fields that are still unset.
C21_EmpowerFplKept ==
    Built =>
        /\ SuppliedByEmpower("fpl_enrollment")
              => journey.enrollment_fpl = jin.empower.fpl_enrollment
        /\ SuppliedByEmpower("fpl_current")
              => journey.current_fpl = jin.empower.fpl_current

\* C22: fpl_change is present and equals current_fpl - enrollment_fpl
\* whenever both final FPL values are non-null (a value of 0 included), and
\* whenever fpl_change is present it equals the difference of the final values.
C22_FplChangeIsDifference ==
    Built =>
        /\ (IsNum(journey.current_fpl) /\ IsNum(journey.enrollment_fpl))
              => journey.fpl_change = Sub(journey.current_fpl, journey.enrollment_fpl)
        /\ pd_notna(journey.fpl_change)
              => journey.fpl_change = Sub(journey.current_fpl, journey.enrollment_fpl)

DatedRows(recs) == {i \in 1..Len(recs) : IsNum(recs[i].date)}
EarliestRows(recs) ==
    {i \in DatedRows(recs) : \A k \in DatedRows(recs) : recs[i].date.n <= recs[k].date.n}
LatestRows(recs) ==
    {i \in DatedRows(recs) : \A k \in DatedRows(recs) : recs[k].date.n <= recs[i].date.n}

\* C23: with several quarterly records, in any input order and with records
\* whose Submission Date is missing or unparseable among them, the
\* first_quarterly_* fields come from the earliest-dated record and the
\* last_quarterly_* fields from the latest-dated record.
C23_FirstAndLastQuarterlyByDate ==
    (Built /\ DatedRows(jin.quarterly) # {}) =>
        /\ \E i \in EarliestRows(jin.quarterly) :
              /\ journey.first_quarterly_date = jin.quarterly[i].date
              /\ journey.first_quarterly_monthly_income = jin.quarterly[i].income
        /\ \E i \in LatestRows(jin.quarterly) :
              /\ journey.last_quarterly_date = jin.quarterly[i].date
              /\ journey.last_quarterly_monthly_income = jin.quarterly[i].income

\* C24: when household_size is not set by Empower and an intake record
\* exists, household_size = adults + children + 1, an intake value of 0
\* children or 0 adults being used as 0.
C24_HouseholdSizeFromIntake ==
    (/\ Built /\ ~SuppliedByEmpower("household_size") /\ jin.intake.present
     /\ IsNum(jin.intake.adults) /\ IsNum(jin.intake.children))
        => journey.household_size
              = Num(jin.intake.adults.n + jin.intake.children.n + 1)

\* C27: has_positive_income_change is true if and only if the final
\* income_change_annual is non-null and greater than 0, for every combination
\* of sources (an Empower wage gain of 0 followed by the quarterly fallback
\* included).
C27_PositiveIncomeChangeFlag ==
    Built =>
        (journey.has_positive_income_change
            <=> (IsNum(journey.income_change_annual)
                 /\ Gt(journey.income_change_annual, Num(0))))

\* an Empower wage gain of 0 replaced by a positive quarterly change
C27_Witness ==
    /\ Built /\ SuppliedByEmpower("wage_gain") /\ jin.empower.wage_gain = Num(0)
    /\ Gt(journey.income_change_annual, Num(0))
    /\ journey.has_positive_income_change

\* an Empower wage gain of 0 that stays, the quarterly rows giving no change
C27_WitnessZeroKept ==
    /\ Built /\ SuppliedByEmpower("wage_gain") /\ Len(jin.quarterly) > 0
    /\ journey.income_change_annual = Num(0)
    /\ ~journey.has_positive_income_change

(***************************************************************************)
(* Further claims about the ROI functions (checked under SpecRoi)          *)
(***************************************************************************)
\* C25: in calculate_sensitivity_analysis the full-investment denominator
\* scenario is computed from the investment passed to the function (its
\* value is that investment and its roi_ratio is the full-persistence
\* roi_ratio of the same call), and the per-family scenario uses the actual
\* number of families, not a fixed count.
C25_DenominatorsFromArguments ==
    /\ Called("calculate_sensitivity_analysis") =>
          LET r == roiCall.result
          IN /\ Num(r.denominator.scenarios.full_25m.value) = roiCall.investment
             /\ r.denominator.scenarios.full_25m.roi_ratio
                   = r.wage_persistence.scenarios.full.roi_ratio
    /\ (Called("calculate_full_roi") /\ Len(roiCall.journeys) > 0) =>
          LET r == roiCall.result
              gains == r.tier1_conservative.metrics.documented_annual_wage_gains
              per_family == Div(gains, Num(Len(roiCall.journeys)))
          IN r.sensitivity_analysis.denominator.scenarios.marginal_per_family.roi_ratio
                = Round(Div(Mul(per_family, Num(25)), Num(7000)), 1)

(***************************************************************************)
(* get_field and get_numeric (etl/journey.py)                              *)
(*                                                                         *)
(* A string is a sequence of one-character strings.  A cell of a row is    *)
(* [kind, num, text]: a float (NaN for an empty CSV cell) or a str.        *)
(***************************************************************************)
\* str.lower(), on the letters used here
LowerChar(c) == CASE c = "A" -> "a" [] c = "B" -> "b" [] c = "C" -> "c" [] OTHER -> c
lower(text) == [i \in 1..Len(text) |-> LowerChar(text[i])]

\* Python `a in b` on strings: a occurs in b as a contiguous part
Contains(b, a) == \E i \in 0..(Len(b) - Len(a)) : SubSeq(b, i + 1, i + Len(a)) = a

FloatCell(x) == [kind |-> "float", num |-> x, text |-> << >>]
StrCell(t) == [kind |-> "str", num |-> None, text |-> t]
NoneCell == [kind |-> "None", num |-> None, text |-> << >>]

\* a plausible slip: the loops swapped, the first column matching any fragment
get_field_column_first(row, possible_names) ==
    LET hits == {i \in 1..Len(row) :
                    \E k \in 1..Len(possible_names) :
                        Contains(lower(row[i].col), lower(possible_names[k]))}
    IN  IF hits = {} THEN NoneCell
        ELSE row[CHOOSE i \in hits : \A h \in hits : i <= h].val

\* lines 355-361: for name in possible_names: for col in row.index: ...
RECURSIVE get_field(_, _)
get_field(row, possible_names) ==
    IF possible_names = << >> THEN NoneCell
    ELSE LET name == Head(possible_names)
             hits == {i \in 1..Len(row) : Contains(lower(row[i].col), lower(name))}
         IN  IF hits # {}
             THEN row[CHOOSE i \in hits : \A h \in hits : i <= h].val
             ELSE get_field(row, Tail(possible_names))

Digits == <<"0", "1", "2", "3", "4", "5", "6", "7", "8", "9">>
IsDigit(c) == \E v \in 1..Len(Digits) : Digits[v] = c
DigitValue(c) == (CHOOSE v \in 1..Len(Digits) : Digits[v] = c) - 1
RECURSIVE DecimalValue(_)
DecimalValue(text) ==
    IF text = << >> THEN 0
    ELSE 10 * DecimalValue(SubSeq(text, 1, Len(text) - 1)) + DigitValue(text[Len(text)])

\* float(val) on a float or a str of the cells used here: a str of decimal
\* digits parses, any other str raises ValueError
float_raises(val) ==
    val.kind = "str" /\ (val.text = << >> \/ \E i \in 1..Len(val.text) : ~IsDigit(val.text[i]))
float(val) == IF val.kind = "float" THEN val.num ELSE Num(DecimalValue(val.text))

\* lines 364-372
get_numeric(row, possible_names) ==
    LET val == get_field(row, possible_names)
    IN  IF val.kind = "None" THEN None
        ELSE IF float_raises(val) THEN None
        ELSE float(val)

(***************************************************************************)
(* SpecFields: one call of get_field or get_numeric on a row               *)
(***************************************************************************)
MaxColumns == 2   \* columns of the row

ColumnNames == {<<"A", "b">>, <<"c", "a">>, <<"B">>}
Fragments == {<<"a", "B">>, <<"b">>, <<"d">>}
\* the callers pass literal lists of one or two fragments
PossibleNames == [1..1 -> Fragments] \cup [1..2 -> Fragments]
Cells == {FloatCell(Num(5)), FloatCell(NaN), StrCell(<<"7", "0">>), StrCell(<<"7", "x">>)}
Rows == UNION {[1..k -> [col : ColumnNames, val : Cells]] : k \in 0..MaxColumns}

InitFields ==
    /\ FplIdle /\ JourneyIdle /\ PipelineIdle /\ EmpowerIdle /\ RoiIdle
    /\ FieldIdle /\ DashIdle

FieldsUnchanged ==
    UNCHANGED <<fplCalls, jpc, jin, journey, pc, written, tables, remaining, journeys,
                savedColumns, empowerDf, roiCall, dashCall>>

CallGetField ==
    /\ fieldCall.fn = "none"
    /\ \E row \in Rows, possible_names \in PossibleNames :
          fieldCall' = [fn |-> "get_field", row |-> row, possible_names |-> possible_names,
                        result |-> get_field(row, possible_names)]
    /\ FieldsUnchanged

CallGetNumeric ==
    /\ fieldCall.fn = "none"
    /\ \E row \in Rows, possible_names \in PossibleNames :
          fieldCall' = [fn |-> "get_numeric", row |-> row, possible_names |-> possible_names,
                        result |-> get_numeric(row, possible_names)]
    /\ FieldsUnchanged

NextFields == CallGetField \/ CallGetNumeric

SpecFields == InitFields /\ [][NextFields]_vars

(***************************************************************************)
(* Claims about get_field and get_numeric (checked under SpecFields)       *)
(***************************************************************************)
\* the columns whose name contains the fragment, case-insensitively
Matches(row, name) == {i \in 1..Len(row) : Contains(lower(row[i].col), lower(name))}
MatchingNames(row, names) == {k \in 1..Len(names) : Matches(row, names[k]) # {}}
EarliestMatching(row, names) ==
    CHOOSE k \in MatchingNames(row, names) : \A h \in MatchingNames(row, names) : k <= h
\* the cells of the columns matched by the earliest-listed matching fragment
MatchedCells(row, names) ==
    {row[i].val : i \in Matches(row, names[EarliestMatching(row, names)])}
Unparseable(cell) == cell.kind = "str" /\ \E i \in 1..Len(cell.text) : ~IsDigit(cell.text[i])
Denotes(cell) == IF cell.kind = "float" THEN cell.num ELSE Num(DecimalValue(cell.text))

\* C26: get_field returns the value of a column whose name contains one of
\* the fragments case-insensitively whenever such a column exists (a column
\* matched by the earliest-listed fragment that matches any column), and
\* returns None without raising when no column matches; get_numeric maps a
\* value that cannot be parsed as a number to missing, never to 0.
C26_FieldLookup ==
    LET row == fieldCall.row
        names == fieldCall.possible_names
        result == fieldCall.result
    IN /\ fieldCall.fn = "get_field" =>
             IF MatchingNames(row, names) = {} THEN result = NoneCell
             ELSE result \in MatchedCells(row, names)
       /\ fieldCall.fn = "get_numeric" =>
             IF MatchingNames(row, names) = {} THEN IsNone(result)
             ELSE \E cell \in MatchedCells(row, names) :
                     IF Unparseable(cell) THEN IsNone(result) /\ result # Num(0)
                     ELSE result = Denotes(cell)

\* the first fragment matches the second column only (in a different letter
\* case), the second fragment matches the first column too
C26_Witness ==
    /\ fieldCall.fn = "get_field"
    /\ fieldCall.possible_names = << <<"a", "B">>, <<"b">> >>
    /\ Len(fieldCall.row) = 2 /\ fieldCall.row[1].col = <<"B">>
    /\ fieldCall.row[2].col = <<"A", "b">>
    /\ fieldCall.result = fieldCall.row[2].val
    /\ fieldCall.result # fieldCall.row[1].val

\* a matched cell holding "7x": get_numeric returns None
C26_WitnessUnparseable ==
    /\ fieldCall.fn = "get_numeric"
    /\ MatchingNames(fieldCall.row, fieldCall.possible_names) # {}
    /\ \A cell \in MatchedCells(fieldCall.row, fieldCall.possible_names) : Unparseable(cell)
    /\ IsNone(fieldCall.result)

(***************************************************************************)
(* The dashboard metrics computed from the journey table                   *)
(* (analytics/metrics.py calculate_success_metrics_from_journeys and       *)
(* pipeline/analytics/generate.py generate_cliff_json).                    *)
(*                                                                         *)
(* journeys is the list of journey dicts as save_participant_journeys      *)
(* wrote it and pd.read_csv read it back: a field that is null in every    *)
(* row is no column of the table, and reading it raises KeyError.  The     *)
(* per-county and per-navigator groupings of the two functions, which read *)
(* no FPL or graduate field, are not part of the returned records here.    *)
(***************************************************************************)
\* journeys[col] raises KeyError
NoColumn(journeys_df, col) == ~notna_any(journeys_df, col)

\* the values of one column, row by row
Column(journeys_df, col) == [i \in 1..Len(journeys_df) |-> journeys_df[i][col]]

\* len(df[mask]) for a mask on one row
CountRows(journeys_df, Mask(_)) ==
    Cardinality({i \in 1..Len(journeys_df) : Mask(journeys_df[i])})

\* Series.mean(): over the non-null values
mean(col) == Div(SumSeq(SelectSeq(col, pd_notna)), Num(Len(SelectSeq(col, pd_notna))))

\* metrics.py line 139
graduation_rate(graduate_count, with_fpl_data) ==
    IF with_fpl_data > 0 THEN Div(Num(graduate_count), Num(with_fpl_data)) ELSE Num(0)

\* metrics.py lines 120-190
calculate_success_metrics_from_journeys(journeys_df) ==
    IF \/ NoColumn(journeys_df, "income_change_annual")
       \/ NoColumn(journeys_df, "current_fpl")
       \/ NoColumn(journeys_df, "fpl_change")
    THEN [outcome |-> "KeyError"]
    ELSE
    LET total_participants == Len(journeys_df)
        HasWage(r) == pd_notna(r.income_change_annual)
        PositiveWage(r) == Gt(r.income_change_annual, Num(0))
        HasFpl(r) == pd_notna(r.current_fpl)
        IsGrad(r) == r.is_graduate
        HasFplChange(r) == pd_notna(r.fpl_change)
        PositiveFpl(r) == Gt(r.fpl_change, Num(0))
        IsPositive(x) == Gt(x, Num(0))
        with_wage_data == CountRows(journeys_df, HasWage)
        positive_wage_count == CountRows(journeys_df, PositiveWage)
        total_wage_gains ==
            SumSeq(SelectSeq(Column(journeys_df, "income_change_annual"), IsPositive))
        avg_wage_change == IF with_wage_data > 0
                           THEN mean(Column(journeys_df, "income_change_annual")) ELSE Num(0)
        positive_wage_rate == IF with_wage_data > 0
                              THEN Div(Num(positive_wage_count), Num(with_wage_data))
                              ELSE Num(0)
        with_fpl_data == CountRows(journeys_df, HasFpl)
        graduate_count == CountRows(journeys_df, IsGrad)
        with_fpl_change == CountRows(journeys_df, HasFplChange)
        positive_fpl_count == CountRows(journeys_df, PositiveFpl)
        avg_fpl_change == IF with_fpl_change > 0
                          THEN mean(Column(journeys_df, "fpl_change")) ELSE Num(0)
    IN [outcome |-> "returned",
        summary |->
           [total_participants |-> total_participants,
            with_wage_data |-> with_wage_data,
            with_fpl_data |-> with_fpl_data],
        outcomes |->
           [graduates_225_fpl |-> graduate_count,
            graduation_rate |->
                Round(Mul(graduation_rate(graduate_count, with_fpl_data), Num(100)), 1),
            positive_fpl_change_count |-> positive_fpl_count,
            positive_fpl_rate |->
                IF with_fpl_change > 0
                THEN Round(Mul(Div(Num(positive_fpl_count), Num(with_fpl_change)), Num(100)), 1)
                ELSE Num(0),
            avg_fpl_change |-> Round(avg_fpl_change, 1),
            positive_wage_count |-> positive_wage_count,
            positive_wage_rate |-> Round(Mul(positive_wage_rate, Num(100)), 1),
            avg_wage_change |-> Round(avg_wage_change, 2),
            total_wage_gains |-> Round(total_wage_gains, 2)],
        fpl_distribution |-> value_counts(Column(journeys_df, "cliff_tier"))]

\* generate.py lines 39-52: the cliff zones, in the order of the list
cliff_zones ==
    <<[id |-> "snap_tenncare", fpl_low |-> 100, fpl_high |-> 130, risk_level |-> "high"],
      [id |-> "liheap_childcare", fpl_low |-> 130, fpl_high |-> 150, risk_level |-> "high"],
      [id |-> "deep_cliff", fpl_low |-> 150, fpl_high |-> 185, risk_level |-> "medium"],
      [id |-> "near_graduation", fpl_low |-> 185, fpl_high |-> 225, risk_level |-> "low"]>>

\* Series.fillna(value)
fillna(col, value) == [i \in 1..Len(col) |-> IF pd_isna(col[i]) THEN value ELSE col[i]]

\* generate.py lines 60-64: the rows of with_fpl inside the zone's FPL range
tier_families(journeys_df, zone) ==
    SelectSeq(journeys_df,
              LAMBDA r : /\ pd_notna(r.current_fpl)
                         /\ Ge(r.current_fpl, Num(zone.fpl_low))
                         /\ Lt(r.current_fpl, Num(zone.fpl_high)))

\* generate.py lines 59-91: one entry of `tiers`
cliff_tier_entry(journeys_df, zone) ==
    LET families == tier_families(journeys_df, zone)
        family_count == Len(families)
        children_in_tier ==
            IF family_count > 0
            THEN IntTrunc(SumSeq(fillna(Column(families, "household_children"), Num(2))))
            ELSE 0
        per_family ==
            IF zone.id = "snap_tenncare" THEN Num(10800)
            ELSE IF zone.id = "liheap_childcare"
                 THEN Add(Num(6600),
                          Mul(Div(Num(children_in_tier), Num(Max(family_count, 1))), Num(6000)))
            ELSE IF zone.id = "deep_cliff" THEN Num(8000)
            ELSE Num(0)
        benefits_at_risk == IntTrunc(Mul(Num(family_count), per_family))
    IN [id |-> zone.id, fpl_low |-> zone.fpl_low, fpl_high |-> zone.fpl_high,
        families |-> family_count,
        benefits_at_risk |-> benefits_at_risk,
        avg_per_family |-> IF family_count > 0
                           THEN IntTrunc(Div(Num(benefits_at_risk), Num(family_count)))
                           ELSE 0,
        children |-> children_in_tier,
        risk_level |-> zone.risk_level]

\* sum of one field over the entries of the high- and medium-risk zones
RECURSIVE SumAtRisk(_, _)
SumAtRisk(tiers, field) ==
    IF tiers = << >> THEN 0
    ELSE (IF Head(tiers).risk_level \in {"high", "medium"} THEN Head(tiers)[field] ELSE 0)
         + SumAtRisk(Tail(tiers), field)

\* generate.py lines 33-175
generate_cliff_json(journeys_df) ==
    LET with_fpl == SelectSeq(journeys_df, LAMBDA r : pd_notna(r.current_fpl))
        in_some_zone ==
            \E z \in 1..Len(cliff_zones) : tier_families(journeys_df, cliff_zones[z]) # << >>
    IN  IF \/ NoColumn(journeys_df, "current_fpl")
           \/ in_some_zone /\ NoColumn(journeys_df, "household_children")
           \/ NoColumn(journeys_df, "household_size")
        THEN [outcome |-> "KeyError"]
        ELSE
        LET tiers == [z \in 1..Len(cliff_zones) |-> cliff_tier_entry(journeys_df, cliff_zones[z])]
            total_benefits_at_risk == SumAtRisk(tiers, "benefits_at_risk")
            total_families_in_cliff == SumAtRisk(tiers, "families")
        IN [outcome |-> "returned",
            metadata |-> [families_analyzed |-> Len(with_fpl),
                          total_participants |-> Len(journeys_df)],
            summary |->
               [families_in_cliff_zone |-> total_families_in_cliff,
                total_benefits_at_risk |-> total_benefits_at_risk,
                avg_exposure_per_family |->
                    IF total_families_in_cliff > 0
                    THEN IntTrunc(Div(Num(total_benefits_at_risk), Num(total_families_in_cliff)))
                    ELSE 0,
                children_at_risk |-> SumAtRisk(tiers, "children")],
            tiers |-> tiers]

(***************************************************************************)
(* SpecDashboard: one call of a dashboard metric function on the journey   *)
(* table of a run                                                          *)
(***************************************************************************)
MaxFamilies == 2   \* participants of the journey table

\* FPL values inside each cliff zone, above the last one, and none
DashboardFpls == {NaN, Num(110), Num(140), Num(160), Num(190), Num(230)}

\* the records of the participants: families with Empower and intake data,
\* on the graduate roster or not, and participants known by their ID alone
DashboardRecords ==
    [roster : BOOLEAN,
     empower : [present : {TRUE}, wage_gain : {Num(5000)}, fpl_current : DashboardFpls,
                fpl_enrollment : {Num(100)}, household_size : {Num(2)},
                county : {"Knox"}, navigator : {"Pat"}],
     intake : {[present |-> TRUE, county |-> "Blount", enrollment_status |-> "Enrolled",
                submission_date |-> Num(25), adults |-> Num(2), children |-> Num(1)]},
     baseline : {AbsentBaseline}, quarterly : {<< >>}, col : {0}]
    \cup {[NoRecords EXCEPT !.roster = b] : b \in BOOLEAN}

\* the journey table build_participant_journeys_from_raw makes of them
JourneyTableOf(recs) == [i \in 1..Len(recs) |-> build_single_journey(i, recs[i])]
DashboardTables ==
    {JourneyTableOf(recs) : recs \in UNION {[1..k -> DashboardRecords] : k \in 1..MaxFamilies}}

InitDashboard ==
    /\ FplIdle /\ JourneyIdle /\ PipelineIdle /\ EmpowerIdle /\ RoiIdle
    /\ FieldIdle /\ DashIdle

DashboardUnchanged ==
    UNCHANGED <<fplCalls, jpc, jin, journey, pc, written, tables, remaining, journeys,
                savedColumns, empowerDf, roiCall, fieldCall>>

CallSuccessMetrics ==
    /\ dashCall.fn = "none"
    /\ \E t \in DashboardTables :
          dashCall' = [fn |-> "calculate_success_metrics_from_journeys", journeys |-> t,
                       result |-> calculate_success_metrics_from_journeys(t)]
    /\ DashboardUnchanged

CallGenerateCliffJson ==
    /\ dashCall.fn = "none"
    /\ \E t \in DashboardTables :
          dashCall' = [fn |-> "generate_cliff_json", journeys |-> t,
                       result |-> generate_cliff_json(t)]
    /\ DashboardUnchanged

NextDashboard == CallSuccessMetrics \/ CallGenerateCliffJson

SpecDashboard == InitDashboard /\ [][NextDashboard]_vars

(***************************************************************************)
(* Claims about the dashboard metrics (checked under SpecDashboard)        *)
(***************************************************************************)
DashReturned(fn) == dashCall.fn = fn /\ dashCall.result.outcome = "returned"

\* C28: graduation_rate is between 0 and 100 for every journey table,
\* tables with roster graduates that have no current_fpl included.
C28_GraduationRateIsAPercentage ==
    DashReturned("calculate_success_metrics_from_journeys") =>
        /\ Ge(dashCall.result.outcomes.graduation_rate, Num(0))
        /\ Le(dashCall.result.outcomes.graduation_rate, Num(100))

\* C29: the number of families reported in each cliff zone (snap_tenncare,
\* liheap_childcare, deep_cliff, near_graduation) equals the number of
\* journeys whose cliff_tier is that zone's id, so that a roster-confirmed
\* graduate is never counted in a cliff zone.
C29_ZoneFamiliesMatchCliffTier ==
    DashReturned("generate_cliff_json") =>
        \A z \in 1..Len(dashCall.result.tiers) :
            dashCall.result.tiers[z].families
                = Cardinality({i \in 1..Len(dashCall.journeys) :
                                  dashCall.journeys[i].cliff_tier = dashCall.result.tiers[z].id})

(***************************************************************************)
(* A further claim about process_empower_data (checked under SpecEmpower)  *)
(***************************************************************************)
\* the cell was multiplied by 100 (no cell of the frames is 0)
Multiplied(raw, out, i) == IsNum(raw[i]) /\ out[i] = Times100(raw[i])

\* C30: after process_empower_data the current-FPL and the enrollment-FPL
\* value of one Empower row are in the same units (both multiplied by 100 or
\* both left unchanged), so that fpl_change never subtracts a decimal-format
\* value from a percentage-format value.
C30_SameUnitsInOneRow ==
    (Processed /\ empowerDf.raw.current.found /\ empowerDf.raw.enrollment.found) =>
        \A i \in 1..empowerDf.raw.rows :
            (IsNum(empowerDf.raw.current.cells[i]) /\ IsNum(empowerDf.raw.enrollment.cells[i]))
                => (Multiplied(empowerDf.raw.current.cells, empowerDf.out.empower_fpl_current, i)
                    <=> Multiplied(empowerDf.raw.enrollment.cells,
                                   empowerDf.out.empower_fpl_enrollment, i))

====
